---- MODULE Spec2Model ----
(***************************************************************************)
(* Timeline composition and job lifecycle of better_loom.                  *)
(*                                                                         *)
(* Times are integers counted in ticks of 50 ms, so 0.1 s = 2 ticks.       *)
(* Three specifications share the variables:                               *)
(*   Spec      VideoComposer.compose, the single-track splicer             *)
(*   SpecDual  the dual-recording branch of process_full_personalization   *)
(*   SpecJob   the job records of the API server and the                   *)
(*             PersonalizationEngine edit loop                             *)
(***************************************************************************)
EXTENDS Integers, Sequences, FiniteSets, TLC

\* ------------------------------------------------------------------ bounds
\* Length of the original timeline, in ticks.
MaxTime == 4
\* Largest number of edits in one request.
MaxUnits == 2
\* Largest number of voice edits of one API job.
MaxEdits == 2
\* Largest number of transcript edits of one PersonalizationEngine job.
MaxEngineEdits == 4

\* Largest number of cuts given to remove_segments.
MaxCuts == 2

\* max_wait_seconds of a lip-sync call
MaxWaitSeconds == 40

\* Largest number of entries of settings.visibility.
MaxWindows == 2
\* Latest time of a visibility entry, and of the instants looked at.
MaxWindowTime == 3

\* ------------------------------------------------------- program constants
\* abs(new_duration - orig_duration) > 0.1 : 0.1 s = 2 ticks
StretchTolerance == 2

\* None of Python, among numbers and among strings
NoneT == -1
NoneS == "None"

\* Signed differences newDuration - (end - start) the single-track inputs use.
ComposeDrifts == {-1, 0, 2}
\* The same for dual-track inputs: beyond, at and above the 0.1 s tolerance.
DualDrifts == {-3, 2, 3}

Abs(x) == IF x < 0 THEN -x ELSE x

\* ---------------------------------------------------------------- inputs
\* An edit of the request: the window [start, end] of the original and the
\* actual duration newDur of the clip produced for it.
Units(drifts) ==
    { [start |-> s, end |-> e, newDur |-> (e - s) + d] :
        s \in 0..MaxTime, e \in 0..MaxTime, d \in drifts }

ValidUnits(drifts) ==
    { u \in Units(drifts) : u.start < u.end /\ u.newDur > 0 }

UnitLists(drifts) ==
    UNION { [1..n -> ValidUnits(drifts)] : n \in 0..MaxUnits }

Drift(u) == u.newDur - (u.end - u.start)

\* sorted by start, pairwise non-overlapping (adjacent windows allowed)
SortedByStart(us) ==
    \A k \in 1..(Len(us) - 1) : us[k].start < us[k + 1].start

NonOverlapping(us) ==
    \A k \in 1..Len(us) : \A m \in 1..Len(us) :
        k < m => (us[k].end <= us[m].start \/ us[m].end <= us[k].start)

ValidTimeline(us) == SortedByStart(us) /\ NonOverlapping(us)

\* ------------------------------------------------- callers of the composer
\* server.py: end_time is start + actual clip duration, original_end_time
\* carries the end of the edited window.
ServerSegment(u) ==
    [ start_time |-> u.start,
      end_time |-> u.start + u.newDur,
      original_end_time |-> u.end,
      duration |-> u.newDur,
      unit |-> u ]

\* orchestrator.py: end_time is the end of the edited window and
\* original_end_time keeps its default None.
OrchestratorSegment(u) ==
    [ start_time |-> u.start,
      end_time |-> u.end,
      original_end_time |-> NoneT,
      duration |-> u.newDur,
      unit |-> u ]

Callers == {"server", "orchestrator"}

MakeSegment(caller, u) ==
    IF caller = "server" THEN ServerSegment(u) ELSE OrchestratorSegment(u)

\* ------------------------------------------------------------ pure helpers
\* sorted(processed_segments, key=start_time): stable insertion sort
RECURSIVE InsertByStart(_, _)
InsertByStart(seg, s) ==
    IF s = <<>> THEN <<seg>>
    ELSE IF seg.start_time < Head(s).start_time
         THEN <<seg>> \o s
         ELSE <<Head(s)>> \o InsertByStart(seg, Tail(s))

RECURSIVE SortSegments(_)
SortSegments(s) ==
    IF s = <<>> THEN <<>>
    ELSE InsertByStart(s[Len(s)], SortSegments(SubSeq(s, 1, Len(s) - 1)))

\* Python truthiness of an Optional[float]
Truthy(x) == x # NoneT /\ x # 0

\* an original clip before every processed segment the cursor has not passed
GapBefore_Inclusive(cur, seg) ==
    IF cur <= seg.start_time
    THEN << [kind |-> "orig", start |-> cur, end |-> seg.start_time, dur |-> 0] >>
    ELSE << >>

\* the original clip before a processed segment, when there is one
GapBefore(cur, seg) ==
    IF cur < seg.start_time
    THEN << [kind |-> "orig", start |-> cur, end |-> seg.start_time, dur |-> 0] >>
    ELSE << >>

\* a processed clip taken to last exactly as long as the window it replaces
ProcessedEntry_WindowLong(seg) ==
    [kind |-> "proc", start |-> seg.unit.start, end |-> seg.unit.end,
     dur |-> seg.unit.end - seg.unit.start]

ProcessedEntry(seg) ==
    [kind |-> "proc", start |-> seg.unit.start, end |-> seg.unit.end,
     dur |-> seg.duration]

ResumeFrom_EndTime(seg) == seg.end_time

ResumeFrom(seg) ==
    IF Truthy(seg.original_end_time) THEN seg.original_end_time ELSE seg.end_time

FinalSegment_Dropped(cur, total) == << >>

\* a final clip whenever the cursor has not passed the end of the original
FinalSegment_Inclusive(cur, total) ==
    IF cur <= total
    THEN << [kind |-> "orig", start |-> cur, end |-> total, dur |-> 0] >>
    ELSE << >>

\* no clip at all for an empty list of processed segments
CopyOriginal_Nothing(total) == << >>

\* shutil.copy(original_video, output_path): the whole original, once
CopyOriginal(total) ==
    << [kind |-> "copy", start |-> 0, end |-> total, dur |-> 0] >>

FinalSegment(cur, total) ==
    IF cur < total
    THEN << [kind |-> "orig", start |-> cur, end |-> total, dur |-> 0] >>
    ELSE << >>

\* nominal duration of a plan entry
EntryDuration(e) ==
    IF e.kind \in {"proc", "stretch"} THEN e.dur ELSE e.end - e.start

RECURSIVE PlanDuration(_)
PlanDuration(p) ==
    IF p = <<>> THEN 0 ELSE EntryDuration(Head(p)) + PlanDuration(Tail(p))

RECURSIVE TotalDrift(_)
TotalDrift(us) ==
    IF us = <<>> THEN 0 ELSE Drift(Head(us)) + TotalDrift(Tail(us))

\* --------------------------------------------------------------- variables
VARIABLES
    c_pc,                 \* position inside compose()
    c_units,              \* the edits the caller composes
    c_caller,             \* which caller built the ProcessedSegments
    total_duration,       \* info.duration of the original
    sorted_segments,      \* compose(): sorted_segments
    c_i,                  \* compose(): index of the next segment, from 1
    current_time,         \* compose(): cursor into the original
    segments_to_concat,   \* compose(): the plan
    c_cursors,            \* every value current_time has taken, in order
    c_missing,            \* indices of sorted_segments whose file is absent
    c_output              \* duration of the written output, NoneT before

VARIABLES
    d_pc,                        \* position inside the dual-recording branch
    d_units,                     \* request.voice_edits with their clips
    d_sorted,                    \* sorted_segments of the branch
    seg_idx,                     \* index of the next segment, from 1
    prev_end,                    \* cursor into both originals
    camera_duration,             \* camera_info.duration
    camera_segments_to_concat,   \* the camera (secondary) plan
    screen_segments_to_concat,   \* the screen (primary) plan
    d_output                     \* durations of the two composited tracks

composeVars == << c_pc, c_units, c_caller, total_duration, sorted_segments,
                  c_i, current_time, segments_to_concat, c_cursors, c_missing,
                  c_output >>

dualVars == << d_pc, d_units, d_sorted, seg_idx, prev_end, camera_duration,
               camera_segments_to_concat, screen_segments_to_concat, d_output >>

VARIABLES
    jobs_store,        \* job id -> job record, NoRecord before creation
    j_pc,              \* job id -> position of its background task
    j_req,             \* job id -> shape of its request
    j_i,               \* job id -> index of the voice edit being processed
    j_processed,       \* job id -> number of processed_segments collected
    j_file,            \* job id -> output_path exists on disk
    j_lipsyncFailed,   \* job id -> a lip-sync call of the job raised
    j_composerError,   \* job id -> the composition of the job raised
    j_toolkit,         \* job id -> the toolkit failures the job has met
    reply,             \* the last answer the server gave about a job
    running            \* the task that holds the event loop, or NoTask

VARIABLES
    e_pc,              \* position inside PersonalizationEngine.process
    e_n,               \* number of transcript edits of the engine job
    e_i,               \* index of the edit being processed, from 1
    e_lipsynced,       \* per edit: lipsynced_video_path is set
    e_output           \* job.output_path, NoneS until process returns

jobVars == << jobs_store, j_pc, j_req, j_i, j_processed, j_file,
              j_lipsyncFailed, j_composerError, j_toolkit, reply, running >>

engineVars == << e_pc, e_n, e_i, e_lipsynced, e_output >>

VARIABLES
    p_pc,              \* position inside SyncLabsClient.lipsync_urls
    p_caller,          \* who called lipsync: the server job or the engine
    elapsed,           \* time.time() - start_time, in eighths of a second
    current_interval,  \* _wait_for_completion: the next delay, in eighths
    p_slept,           \* the delay of the last time.sleep, NoneT before
    p_polled_at,       \* elapsed when the last status request was issued
    p_status,          \* result.status of the last status request
    p_error,           \* message of the SyncLabsError raised, NoneS if none
    p_outcome          \* what the caller made of the finished call

pollVars == << p_pc, p_caller, elapsed, current_interval, p_slept,
               p_polled_at, p_status, p_error, p_outcome >>

VARIABLES
    s_data,            \* PersistentStore("jobs")._data: job id -> status
    s_file,            \* what jobs.json holds: job id -> status
    s_access           \* the last access to the store

storeVars == << s_data, s_file, s_access >>

VARIABLES
    o_pc,               \* position of the call of overlay_camera_bubble
    o_caller,           \* which call site composites
    o_replacements,     \* lip-synced clips spliced into the camera track
    use_camera_audio,   \* overlay_camera_bubble: use_camera_audio
    screen_fps,         \* screen_info.fps
    camera_fps,         \* camera_info.fps
    visibility,         \* settings.visibility
    visibility_filter,  \* the terms of the enable expression, or NoFilter
    target_fps,         \* overlay_camera_bubble: target_fps
    audio_map,          \* overlay_camera_bubble: audio_map
    o_out               \* frame rates and audio source of the output

overlayVars == << o_pc, o_caller, o_replacements, use_camera_audio,
                  screen_fps, camera_fps, visibility, visibility_filter,
                  target_fps, audio_map, o_out >>

VARIABLES
    tts_cache,         \* _tts_cache: cache key -> path of the audio file
    voice_files,       \* the audio files of OUTPUT_DIR: path -> what is spoken
    videos_store,      \* the record of the video: field -> who wrote it last
    g_pc,              \* job id -> position of the background task
    g_n,               \* job id -> len(request.voice_edits)
    g_i,               \* job id -> index of the voice edit in progress
    x_read             \* the last read of a process-wide value by a task

voiceVars == << tts_cache, voice_files, videos_store, g_pc, g_n, g_i, x_read >>

VARIABLES
    f_store,           \* jobs_store: job id -> the job's record
    f_kind,            \* job id -> which background task works on it
    f_pc,              \* job id -> position of its background task
    f_k,               \* job id -> how many of the final writes are done
    f_loop,            \* the coroutine the event loop is running, or NoTask
    f_files,           \* the files of OUTPUT_DIR
    f_reply            \* the last response a client got

finishVars == << f_store, f_kind, f_pc, f_k, f_loop, f_files, f_reply >>

VARIABLES
    r_pc,              \* position inside remove_segments
    r_given,           \* the cuts as the caller gave them
    cuts,              \* remove_segments: cuts, sorted by start
    r_i,               \* index of the cut the loop is at
    r_current_time,    \* remove_segments: current_time
    keep_segments      \* remove_segments: keep_segments

cutVars == << r_pc, r_given, cuts, r_i, r_current_time, keep_segments >>

VARIABLES
    v_data,            \* videos_store._data[video_id]: which results it holds
    v_file,            \* the same record in videos.json
    v_lock,            \* the worker holding videos_store._lock, or NoTask
    w_pc,              \* worker -> position in its function
    w_video            \* worker -> what its local name "video" refers to

workerVars == << v_data, v_file, v_lock, w_pc, w_video >>

vars == << composeVars, dualVars, jobVars, engineVars, pollVars, storeVars,
          overlayVars, voiceVars, finishVars, cutVars, workerVars >>

\* the variables of the store, the compositor and the voice client
laterVars == << storeVars, overlayVars, voiceVars, finishVars, cutVars,
               workerVars >>

earlierVars == << composeVars, dualVars, jobVars, engineVars, pollVars >>

otherThanStore == << earlierVars, overlayVars, voiceVars, finishVars,
    cutVars, workerVars >>

otherThanOverlay == << earlierVars, storeVars, voiceVars, finishVars,
    cutVars, workerVars >>

otherThanVoice == << earlierVars, storeVars, overlayVars, finishVars,
    cutVars, workerVars >>

otherThanFinish == << earlierVars, storeVars, overlayVars, voiceVars,
    cutVars, workerVars >>

otherThanCuts == << earlierVars, storeVars, overlayVars, voiceVars,
    finishVars, workerVars >>

otherThanWorkers == << earlierVars, storeVars, overlayVars, voiceVars,
    finishVars, cutVars >>

otherThanCompose == << dualVars, jobVars, engineVars, pollVars, laterVars >>

otherThanDual == << composeVars, jobVars, engineVars, pollVars, laterVars >>

otherThanJob == << composeVars, dualVars, engineVars, pollVars, laterVars >>

otherThanEngine == << composeVars, dualVars, jobVars, pollVars, laterVars >>

otherThanPoll == << composeVars, dualVars, jobVars, engineVars, laterVars >>

otherThanJobAndPoll == << composeVars, dualVars, engineVars, laterVars >>

\* -------------------------------------------------------- compose(): steps
ComposeInit ==
    /\ c_pc = "idle"
    /\ c_units = << >>
    /\ c_caller = "server"
    /\ total_duration = MaxTime
    /\ sorted_segments = << >>
    /\ c_i = 1
    /\ current_time = 0
    /\ segments_to_concat = << >>
    /\ c_cursors = << 0 >>
    /\ c_missing = {}
    /\ c_output = NoneT

\* compose() is entered with a non-empty list: sort, cursor at 0.
ComposeCall ==
    /\ c_pc = "idle"
    /\ \E us \in UnitLists(ComposeDrifts), caller \in Callers :
         /\ us # << >>
         /\ c_units' = us
         /\ c_caller' = caller
         /\ sorted_segments' =
              SortSegments([k \in 1..Len(us) |-> MakeSegment(caller, us[k])])
         /\ c_missing' \in SUBSET (1..Len(us))
    /\ c_pc' = "loop"
    /\ c_i' = 1
    /\ current_time' = 0
    /\ segments_to_concat' = << >>
    /\ c_cursors' = << 0 >>
    /\ UNCHANGED << total_duration, c_output >>

\* compose() is entered with no segments: the original is copied.
ComposeCopy ==
    /\ c_pc = "idle"
    /\ c_units' = << >>
    /\ c_pc' = "done"
    /\ segments_to_concat' = CopyOriginal(total_duration)
    /\ c_output' = PlanDuration(CopyOriginal(total_duration))
    /\ UNCHANGED << c_caller, total_duration, sorted_segments, c_i,
                    current_time, c_cursors, c_missing >>

\* one iteration of "for i, seg in enumerate(sorted_segments)"
ComposeIteration ==
    /\ c_pc = "loop"
    /\ c_i <= Len(sorted_segments)
    /\ LET seg == sorted_segments[c_i] IN
         /\ segments_to_concat' =
              segments_to_concat \o GapBefore(current_time, seg)
                                 \o << ProcessedEntry(seg) >>
         /\ current_time' = ResumeFrom(seg)
         /\ c_cursors' = Append(c_cursors, ResumeFrom(seg))
    /\ c_i' = c_i + 1
    /\ UNCHANGED << c_pc, c_units, c_caller, total_duration, sorted_segments,
                    c_missing, c_output >>

\* after the loop: the remaining original
ComposeFinal ==
    /\ c_pc = "loop"
    /\ c_i > Len(sorted_segments)
    /\ segments_to_concat' =
         segments_to_concat \o FinalSegment(current_time, total_duration)
    /\ c_pc' = "concat"
    /\ UNCHANGED << c_units, c_caller, total_duration, sorted_segments, c_i,
                    current_time, c_cursors, c_missing, c_output >>

\* concatenate_segments: the output lasts as long as its parts together
ComposeConcat ==
    /\ c_pc = "concat"
    /\ c_missing = {}
    /\ c_output' = PlanDuration(segments_to_concat)
    /\ c_pc' = "done"
    /\ UNCHANGED << c_units, c_caller, total_duration, sorted_segments, c_i,
                    current_time, segments_to_concat, c_cursors, c_missing >>

\* a processed segment without a file was only logged in the loop;
\* get_video_info raises FileNotFoundError for it before the concatenation
ComposeConcatFails ==
    /\ c_pc = "concat"
    /\ c_missing # {}
    /\ c_pc' = "error"
    /\ UNCHANGED << c_units, c_caller, total_duration, sorted_segments, c_i,
                    current_time, segments_to_concat, c_cursors, c_missing,
                    c_output >>

\* the composer is discarded and a new one serves the next request
ComposeReturn ==
    /\ c_pc \in {"done", "error"}
    /\ c_pc' = "idle"
    /\ c_units' = << >>
    /\ c_caller' = "server"
    /\ sorted_segments' = << >>
    /\ c_i' = 1
    /\ current_time' = 0
    /\ segments_to_concat' = << >>
    /\ c_cursors' = << 0 >>
    /\ c_missing' = {}
    /\ c_output' = NoneT
    /\ UNCHANGED total_duration

\* ------------------------------------------------- single-track properties
PassThrough(s, e) == [kind |-> "orig", start |-> s, end |-> e, dur |-> 0]

ComposeFinished == c_pc \in {"concat", "done"} /\ c_units # << >>

C2_CursorResumesAtOriginalEnd ==
    (c_pc \in {"loop", "concat", "done"} /\ c_units # << >> /\ c_i > 1) =>
        /\ current_time = sorted_segments[c_i - 1].unit.end
        /\ \A k \in 1..(Len(segments_to_concat) - 1) :
             (segments_to_concat[k].kind = "proc"
                /\ segments_to_concat[k + 1].kind = "orig") =>
               \E m \in 1..Len(sorted_segments) :
                 /\ segments_to_concat[k] = ProcessedEntry(sorted_segments[m])
                 /\ segments_to_concat[k + 1].start
                      = sorted_segments[m].unit.end

C2_Witness ==
    /\ c_pc = "concat"
    /\ c_caller = "server"
    /\ Len(segments_to_concat) >= 2
    /\ LET n == Len(segments_to_concat) IN
         /\ segments_to_concat[n].kind = "orig"
         /\ segments_to_concat[n - 1].kind = "proc"
         /\ segments_to_concat[n - 1].dur
              # segments_to_concat[n - 1].end - segments_to_concat[n - 1].start
         /\ segments_to_concat[n].start = segments_to_concat[n - 1].end

\* C3: a unit list that is not sorted by start, or in which two windows
\* overlap, is rejected before any clip is emitted: no plan, no output.
C3_InvalidTimelineRejected ==
    (c_pc # "idle" /\ ~ValidTimeline(c_units)) =>
        /\ segments_to_concat = << >>
        /\ c_output = NoneT


\* ------------------------------------------- dual-recording branch: steps
\* camera_info.duration against info.duration: shorter, equal, longer
CameraDurations == {MaxTime - 1, MaxTime, MaxTime + 2}

NewDuration(seg) == seg.end_time - seg.start_time

OrigDuration(seg) == seg.original_end_time - seg.start_time

NeedsStretch_Inclusive(seg) ==
    Abs(NewDuration(seg) - OrigDuration(seg)) >= StretchTolerance

NeedsStretch(seg) ==
    Abs(NewDuration(seg) - OrigDuration(seg)) > StretchTolerance

\* speed_factor = orig_duration / new_duration, kept as numerator, denominator
SpeedFactor_Inverted(seg) == << NewDuration(seg), OrigDuration(seg) >>

SpeedFactor(seg) == << OrigDuration(seg), NewDuration(seg) >>

\* setpts = (1 / speed_factor) * PTS applied to a clip of orig_duration
StretchedDuration(seg) ==
    (OrigDuration(seg) * SpeedFactor(seg)[2]) \div SpeedFactor(seg)[1]

GapEntry(k, s, e) ==
    [kind |-> "orig", slot |-> << "gap", k >>, start |-> s, end |-> e, dur |-> 0]

CameraGap_FromZero(k, cur, seg) ==
    IF seg.start_time > cur THEN << GapEntry(k, 0, seg.start_time) >> ELSE << >>

CameraGap(k, cur, seg) ==
    IF seg.start_time > cur THEN << GapEntry(k, cur, seg.start_time) >> ELSE << >>

ScreenGap_Dropped(k, cur, seg) == << >>

ScreenGap(k, cur, seg) ==
    IF seg.start_time > cur THEN << GapEntry(k, cur, seg.start_time) >> ELSE << >>

CameraEdit(k, seg) ==
    [kind |-> "proc", slot |-> << "unit", k >>, start |-> seg.start_time,
     end |-> seg.original_end_time, dur |-> seg.duration]

ScreenEdit(k, seg) ==
    IF NeedsStretch(seg)
    THEN [kind |-> "stretch", slot |-> << "unit", k >>, start |-> seg.start_time,
          end |-> seg.original_end_time, dur |-> StretchedDuration(seg)]
    ELSE [kind |-> "orig", slot |-> << "unit", k >>, start |-> seg.start_time,
          end |-> seg.original_end_time, dur |-> 0]

FinalEntry(s, e) ==
    [kind |-> "orig", slot |-> << "final", 0 >>, start |-> s, end |-> e, dur |-> 0]

DualInit ==
    /\ d_pc = "idle"
    /\ d_units = << >>
    /\ d_sorted = << >>
    /\ seg_idx = 1
    /\ prev_end = 0
    /\ camera_duration = MaxTime
    /\ camera_segments_to_concat = << >>
    /\ screen_segments_to_concat = << >>
    /\ d_output = << NoneT, NoneT >>

\* processed_segments all carry is_camera_segment: sort, cursor at 0
DualCall ==
    /\ d_pc = "idle"
    /\ \E us \in UnitLists(DualDrifts), cam \in CameraDurations :
         /\ us # << >>
         /\ d_units' = us
         /\ camera_duration' = cam
         /\ d_sorted' = SortSegments([k \in 1..Len(us) |-> ServerSegment(us[k])])
    /\ d_pc' = "loop"
    /\ seg_idx' = 1
    /\ prev_end' = 0
    /\ camera_segments_to_concat' = << >>
    /\ screen_segments_to_concat' = << >>
    /\ d_output' = << NoneT, NoneT >>

\* one iteration of "for seg_idx, seg in enumerate(sorted_segments)"
DualIteration ==
    /\ d_pc = "loop"
    /\ seg_idx <= Len(d_sorted)
    /\ LET seg == d_sorted[seg_idx] IN
         /\ camera_segments_to_concat' =
              camera_segments_to_concat \o CameraGap(seg_idx, prev_end, seg)
                                        \o << CameraEdit(seg_idx, seg) >>
         /\ screen_segments_to_concat' =
              screen_segments_to_concat \o ScreenGap(seg_idx, prev_end, seg)
                                        \o << ScreenEdit(seg_idx, seg) >>
         /\ prev_end' = seg.original_end_time
    /\ seg_idx' = seg_idx + 1
    /\ UNCHANGED << d_pc, d_units, d_sorted, camera_duration, d_output >>

\* "Final gap after last edit": each track is cut up to its own duration
DualFinal ==
    /\ d_pc = "loop"
    /\ seg_idx > Len(d_sorted)
    /\ IF prev_end < total_duration
       THEN /\ camera_duration - prev_end > 0
            /\ camera_segments_to_concat' =
                 Append(camera_segments_to_concat,
                        FinalEntry(prev_end, camera_duration))
            /\ screen_segments_to_concat' =
                 Append(screen_segments_to_concat,
                        FinalEntry(prev_end, total_duration))
       ELSE UNCHANGED << camera_segments_to_concat, screen_segments_to_concat >>
    /\ d_pc' = "concat"
    /\ UNCHANGED << d_units, d_sorted, seg_idx, prev_end, camera_duration,
                    d_output >>

\* extract_segment raises ValueError for a camera cut of no length
DualFinalInvalid ==
    /\ d_pc = "loop"
    /\ seg_idx > Len(d_sorted)
    /\ prev_end < total_duration
    /\ camera_duration - prev_end <= 0
    /\ d_pc' = "error"
    /\ UNCHANGED << d_units, d_sorted, seg_idx, prev_end, camera_duration,
                    camera_segments_to_concat, screen_segments_to_concat,
                    d_output >>

\* run_ffmpeg raises FFmpegError in any extract, stretch or concatenation
DualToolkitFailure ==
    /\ d_pc \in {"loop", "concat"}
    /\ d_pc' = "error"
    /\ UNCHANGED << d_units, d_sorted, seg_idx, prev_end, camera_duration,
                    camera_segments_to_concat, screen_segments_to_concat,
                    d_output >>

\* the two concatenate_segments calls
DualConcat ==
    /\ d_pc = "concat"
    /\ d_output' = << PlanDuration(screen_segments_to_concat),
                      PlanDuration(camera_segments_to_concat) >>
    /\ d_pc' = "done"
    /\ UNCHANGED << d_units, d_sorted, seg_idx, prev_end, camera_duration,
                    camera_segments_to_concat, screen_segments_to_concat >>

\* the job ends; the next request starts from fresh locals
DualReturn ==
    /\ d_pc \in {"done", "error"}
    /\ d_pc' = "idle"
    /\ d_units' = << >>
    /\ d_sorted' = << >>
    /\ seg_idx' = 1
    /\ prev_end' = 0
    /\ camera_duration' = MaxTime
    /\ camera_segments_to_concat' = << >>
    /\ screen_segments_to_concat' = << >>
    /\ d_output' = << NoneT, NoneT >>

\* --------------------------------------------------- dual-track properties
DualPlansBuilt == d_pc \in {"concat", "done"}

PairIndices ==
    1..(IF Len(camera_segments_to_concat) < Len(screen_segments_to_concat)
        THEN Len(camera_segments_to_concat)
        ELSE Len(screen_segments_to_concat))

PairDifference(i) ==
    Abs(EntryDuration(screen_segments_to_concat[i])
          - EntryDuration(camera_segments_to_concat[i]))

BothVerbatim(i) ==
    /\ screen_segments_to_concat[i].kind = "orig"
    /\ camera_segments_to_concat[i].kind = "orig"

\* C4 as stated: at every index the screen entry and the camera entry last
\* equally long, exactly unless both are verbatim pass-throughs, which may
\* differ by 50 ms (one tick).
C4_PairsEqualDuration ==
    DualPlansBuilt =>
        \A i \in PairIndices :
            IF BothVerbatim(i)
            THEN PairDifference(i) <= 1
            ELSE PairDifference(i) = 0

\* C4 amended: a replacement and its time-adjusted pass-through last equally
\* long, and so do the two pass-throughs of a gap before a unit; a
\* replacement and a plain pass-through differ by at most the 0.1 s stretch
\* tolerance; the two trailing pass-throughs differ by exactly the difference
\* between the camera's and the screen's durations.
C4_PairsDurationAmended ==
    DualPlansBuilt =>
        \A i \in PairIndices :
            LET scr == screen_segments_to_concat[i]
                cam == camera_segments_to_concat[i]
            IN  /\ (cam.kind = "proc" /\ scr.kind = "stretch") =>
                       PairDifference(i) = 0
                /\ (cam.kind = "proc" /\ scr.kind = "orig") =>
                       PairDifference(i) <= StretchTolerance
                /\ (cam.kind = "orig" /\ cam.slot[1] = "gap") =>
                       PairDifference(i) = 0
                /\ (cam.kind = "orig" /\ cam.slot[1] = "final") =>
                       PairDifference(i) = Abs(camera_duration - total_duration)

C4_Witness ==
    /\ d_pc = "done"
    /\ camera_duration = total_duration + 2
    /\ \E i \in PairIndices :
         /\ camera_segments_to_concat[i].kind = "proc"
         /\ screen_segments_to_concat[i].kind = "orig"
         /\ PairDifference(i) = StretchTolerance
    /\ \E i \in PairIndices :
         /\ camera_segments_to_concat[i].kind = "proc"
         /\ screen_segments_to_concat[i].kind = "stretch"
    /\ \E i \in PairIndices :
         /\ camera_segments_to_concat[i].slot[1] = "final"
         /\ PairDifference(i) = 2

\* C5: the screen plan and the camera plan have the same number of entries
\* and entry i of either stands for the same gap, unit window or trailing
\* segment of the original.
C5_PlansSameLengthSameOrder ==
    d_pc \in {"loop", "concat", "done"} =>
        /\ Len(camera_segments_to_concat) = Len(screen_segments_to_concat)
        /\ \A i \in 1..Len(camera_segments_to_concat) :
             /\ camera_segments_to_concat[i].slot
                  = screen_segments_to_concat[i].slot
             /\ camera_segments_to_concat[i].start
                  = screen_segments_to_concat[i].start

C5_Witness ==
    /\ d_pc = "done"
    /\ Len(d_units) = 2
    /\ Len(camera_segments_to_concat) = 4
    /\ Len(screen_segments_to_concat) = 4
    /\ \E i \in 1..4 : screen_segments_to_concat[i].slot[1] = "gap"
    /\ \E i \in 1..4 : screen_segments_to_concat[i].slot[1] = "final"

\* C6: for a unit whose drift is at most 0.1 s in absolute value the screen
\* entry is the plain pass-through of the unit's window; otherwise it is a
\* time-adjusted pass-through of that window lasting exactly as long as the
\* camera clip; the camera entry is the replacement clip in both cases.
C6_StretchOnlyBeyondTolerance ==
    d_pc \in {"loop", "concat", "done"} =>
        \A i \in PairIndices :
            camera_segments_to_concat[i].slot[1] = "unit" =>
                LET scr == screen_segments_to_concat[i]
                    cam == camera_segments_to_concat[i]
                    u == d_sorted[cam.slot[2]].unit
                IN  /\ cam.kind = "proc"
                    /\ cam.dur = u.newDur
                    /\ scr.start = u.start
                    /\ scr.end = u.end
                    /\ Abs(Drift(u)) <= StretchTolerance => scr.kind = "orig"
                    /\ Abs(Drift(u)) > StretchTolerance =>
                         (scr.kind = "stretch" /\ scr.dur = u.newDur)

C6_Witness ==
    /\ d_pc = "done"
    /\ \E i \in PairIndices, k \in PairIndices :
         /\ screen_segments_to_concat[i].kind = "stretch"
         /\ screen_segments_to_concat[i].dur
              = camera_segments_to_concat[i].dur
         /\ screen_segments_to_concat[i].dur
              # screen_segments_to_concat[i].end
                  - screen_segments_to_concat[i].start
         /\ camera_segments_to_concat[k].kind = "proc"
         /\ screen_segments_to_concat[k].kind = "orig"
         /\ Abs(Drift(d_sorted[camera_segments_to_concat[k].slot[2]].unit))
              = StretchTolerance

\* C7: a gap before a unit is the same verbatim pass-through on both tracks,
\* from the cursor (the end of the previous unit's window, 0 at first) to the
\* start of the unit's window.
C7_GapsIdenticalOnBothTracks ==
    d_pc \in {"loop", "concat", "done"} =>
        /\ \A i \in 1..Len(camera_segments_to_concat) :
             camera_segments_to_concat[i].slot[1] = "gap" =>
                /\ i <= Len(screen_segments_to_concat)
                /\ screen_segments_to_concat[i] = camera_segments_to_concat[i]
                /\ camera_segments_to_concat[i].kind = "orig"
                /\ camera_segments_to_concat[i].end
                     = d_sorted[camera_segments_to_concat[i].slot[2]].start_time
                /\ camera_segments_to_concat[i].start
                     = (IF i = 1 THEN 0
                        ELSE camera_segments_to_concat[i - 1].end)
        /\ \A i \in 1..Len(screen_segments_to_concat) :
             screen_segments_to_concat[i].slot[1] = "gap" =>
                /\ i <= Len(camera_segments_to_concat)
                /\ camera_segments_to_concat[i].slot[1] = "gap"

C7_Witness ==
    /\ d_pc = "done"
    /\ \E i \in PairIndices :
         /\ i > 1
         /\ camera_segments_to_concat[i].slot[1] = "gap"
         /\ screen_segments_to_concat[i] = camera_segments_to_concat[i]
         /\ camera_segments_to_concat[i].start > 0

\* ----------------------------------------------- API server: job records
Jobs == {"j1", "j2"}

NoTask == "none"

NoRecord == [status |-> "absent", progress |-> 0, output_url |-> NoneS,
             error |-> NoneS, output_path |-> NoneS]

\* the record full_personalization stores before it queues the task
NewJobRecord ==
    [status |-> "pending", progress |-> 0, output_url |-> NoneS,
     error |-> NoneS, output_path |-> NoneS]

Requests ==
    [edits : 0..MaxEdits, has_voice : BOOLEAN, visual : BOOLEAN]

Exceptions == {"FFmpegError", "SyncLabsError", "FileNotFoundError"}

\* str(e)
StrOf(e) ==
    CASE e = "FFmpegError" -> "Concatenate segments failed"
      [] e = "SyncLabsError" -> "Job failed"
      [] OTHER -> "Video not found"

\* exit codes of an ffmpeg subprocess
ReturnCodes == {0, 1}

RunFFmpeg_Unchecked(returncode) == "ok"

\* run_ffmpeg: a non-zero exit code raises FFmpegError
RunFFmpeg(returncode) ==
    IF returncode # 0 THEN "raise" ELSE "ok"

\* get_audio_loudness runs ffmpeg itself and never looks at the exit code:
\* without loudnorm statistics on stderr it returns the default -23.0
GetAudioLoudness(returncode) ==
    IF returncode = 0 THEN "measured" ELSE "default"

\* the toolkit failures of a job after one more ffmpeg call
ToolkitAfter(seen, failed, what) ==
    IF failed THEN seen \cup {what} ELSE seen

HandleException_StatusOnly(rec, e) == [rec EXCEPT !.status = "failed"]

\* except Exception as e: status = "failed"; error = str(e)
HandleException(rec, e) ==
    [rec EXCEPT !.status = "failed", !.error = StrOf(e)]

OnComposerError_Swallowed(j) == "continue"

\* compose_personalized_video has try/finally and no except: the error
\* reaches the handler of the job
OnComposerError(j) == "except"

OutputUrl(j) == "/api/render/" \o j \o "/download"

OutputPath(j) == "personalized_" \o j \o ".mp4"

\* progress = 10 + int(40 * (i / len(voice_edits))), i counted from 0
EditProgress(i, n) == 10 + ((40 * i) \div n)

AfterVoice(j) ==
    IF j_req[j].visual THEN "visual" ELSE "final"

\* download_job_output: 404 unknown job, 400 not completed, 404 no file
DownloadResponse(rec, exists) ==
    IF rec.status = "absent" THEN "404"
    ELSE IF rec.status # "completed" THEN "400"
    ELSE IF rec.output_path = NoneS \/ ~exists THEN "404"
    ELSE "file"

NoReply == [op |-> "none", job |-> "none", code |-> "none",
            status |-> "absent", error |-> NoneS]

NoRequest == [edits |-> 0, has_voice |-> FALSE, visual |-> FALSE]

\* the coroutine of job j is over: request, i and processed_segments are gone
TaskEnds(j) ==
    /\ j_req' = [j_req EXCEPT ![j] = NoRequest]
    /\ j_i' = [j_i EXCEPT ![j] = 0]
    /\ j_processed' = [j_processed EXCEPT ![j] = 0]

JobInit ==
    /\ jobs_store = [j \in Jobs |-> NoRecord]
    /\ j_pc = [j \in Jobs |-> "absent"]
    /\ j_req = [j \in Jobs |-> NoRequest]
    /\ j_i = [j \in Jobs |-> 0]
    /\ j_processed = [j \in Jobs |-> 0]
    /\ j_file = [j \in Jobs |-> FALSE]
    /\ j_lipsyncFailed = [j \in Jobs |-> FALSE]
    /\ j_composerError = [j \in Jobs |-> FALSE]
    /\ j_toolkit = [j \in Jobs |-> {}]
    /\ reply = NoReply
    /\ running = NoTask

\* POST /api/personalize: store the pending record, queue the task
CreateJob(j) ==
    /\ running = NoTask
    /\ j_pc[j] = "absent"
    /\ \E r \in Requests : j_req' = [j_req EXCEPT ![j] = r]
    /\ jobs_store' = [jobs_store EXCEPT ![j] = NewJobRecord]
    /\ j_pc' = [j_pc EXCEPT ![j] = "queued"]
    /\ UNCHANGED << j_toolkit, j_i, j_processed, j_file, j_lipsyncFailed,
                    j_composerError, reply, running >>

\* the task starts: status processing, progress 5
JobStart(j) ==
    /\ running = NoTask
    /\ j_pc[j] = "queued"
    /\ running' = j
    /\ jobs_store' = [jobs_store EXCEPT ![j].status = "processing",
                                        ![j].progress = 5]
    /\ j_pc' = [j_pc EXCEPT ![j] =
                 IF j_req[j].edits > 0 THEN "voice" ELSE AfterVoice(j)]
    /\ UNCHANGED << j_toolkit, j_req, j_i, j_processed, j_file, j_lipsyncFailed,
                    j_composerError, reply >>

\* one voice edit: skipped without a voice id, else voice, lip-sync, segment
JobVoiceEdit(j) ==
    /\ running = j
    /\ j_pc[j] = "voice"
    /\ j_i[j] < j_req[j].edits
    /\ j_i' = [j_i EXCEPT ![j] = @ + 1]
    /\ IF j_req[j].has_voice
       THEN /\ jobs_store' = [jobs_store EXCEPT ![j].progress =
                                 EditProgress(j_i[j], j_req[j].edits)]
            /\ j_processed' = [j_processed EXCEPT ![j] = @ + 1]
            /\ \E rc \in ReturnCodes :
                 j_toolkit' = [j_toolkit EXCEPT ![j] =
                     ToolkitAfter(@, GetAudioLoudness(rc) = "default",
                                  "loudness")]
       ELSE /\ jobs_store' = [jobs_store EXCEPT ![j].progress =
                                 IF j_i[j] = 0 THEN 10 ELSE @]
            /\ UNCHANGED << j_processed, j_toolkit >>
    /\ UNCHANGED << j_pc, j_req, j_file, j_lipsyncFailed, j_composerError,
                    reply, running >>

\* sync_client.lipsync raises: nothing catches it before the job's handler
JobLipsyncFails(j) ==
    /\ running = j
    /\ j_pc[j] = "voice"
    /\ j_i[j] < j_req[j].edits
    /\ j_req[j].has_voice
    /\ j_lipsyncFailed' = [j_lipsyncFailed EXCEPT ![j] = TRUE]
    /\ jobs_store' = [jobs_store EXCEPT ![j] =
                        HandleException(
                          [@ EXCEPT !.progress =
                              EditProgress(j_i[j], j_req[j].edits)],
                          "SyncLabsError")]
    /\ j_pc' = [j_pc EXCEPT ![j] = "ended"]
    /\ running' = NoTask
    /\ TaskEnds(j)
    /\ UNCHANGED << j_toolkit, j_file, j_composerError, reply >>

\* the edits are done: compose when a segment was processed
JobVoiceDone(j) ==
    /\ running = j
    /\ j_pc[j] = "voice"
    /\ j_i[j] = j_req[j].edits
    /\ j_pc' = [j_pc EXCEPT ![j] =
                 IF j_processed[j] > 0 THEN "compose" ELSE AfterVoice(j)]
    /\ UNCHANGED << j_toolkit, jobs_store, j_req, j_i, j_processed, j_file,
                    j_lipsyncFailed, j_composerError, reply, running >>

\* progress 50, the composition succeeds
JobCompose(j) ==
    /\ running = j
    /\ j_pc[j] = "compose"
    /\ jobs_store' = [jobs_store EXCEPT ![j].progress = 50]
    /\ j_pc' = [j_pc EXCEPT ![j] = AfterVoice(j)]
    /\ UNCHANGED << j_toolkit, j_req, j_i, j_processed, j_file, j_lipsyncFailed,
                    j_composerError, reply, running >>

\* progress 50, the composition raises
JobComposeFails(j) ==
    /\ running = j
    /\ j_pc[j] = "compose"
    /\ j_composerError' = [j_composerError EXCEPT ![j] = TRUE]
    /\ \E e \in {"FFmpegError", "FileNotFoundError"} :
         /\ j_toolkit' = [j_toolkit EXCEPT ![j] =
                ToolkitAfter(@, e = "FFmpegError", "run_ffmpeg")]
         /\ IF /\ OnComposerError(j) = "except"
               /\ (e = "FFmpegError" => RunFFmpeg(1) = "raise")
            THEN /\ jobs_store' = [jobs_store EXCEPT ![j] =
                        HandleException([@ EXCEPT !.progress = 50], e)]
                 /\ j_pc' = [j_pc EXCEPT ![j] = "ended"]
                 /\ running' = NoTask
                 /\ TaskEnds(j)
            ELSE /\ jobs_store' = [jobs_store EXCEPT ![j].progress = 50]
                 /\ j_pc' = [j_pc EXCEPT ![j] = AfterVoice(j)]
                 /\ UNCHANGED << running, j_req, j_i, j_processed >>
    /\ UNCHANGED << j_file, j_lipsyncFailed, reply >>

\* visual replacements: progress 60, then 80, then the processed video
JobVisual(j) ==
    /\ running = j
    /\ j_pc[j] = "visual"
    /\ jobs_store' = [jobs_store EXCEPT ![j].progress = 80]
    /\ j_pc' = [j_pc EXCEPT ![j] = "final"]
    /\ UNCHANGED << j_toolkit, j_req, j_i, j_processed, j_file, j_lipsyncFailed,
                    j_composerError, reply, running >>

\* any other step of the task fails: an ffmpeg call run through run_ffmpeg
\* exits non-zero, or another call raises
JobStepFails(j) ==
    /\ running = j
    /\ j_pc[j] \in {"voice", "visual", "final"}
    /\ \E e \in Exceptions :
         /\ j_toolkit' = [j_toolkit EXCEPT ![j] =
                ToolkitAfter(@, e = "FFmpegError", "run_ffmpeg")]
         /\ IF e = "FFmpegError" => RunFFmpeg(1) = "raise"
            THEN /\ jobs_store' = [jobs_store EXCEPT ![j] =
                                     HandleException(@, e)]
                 /\ j_pc' = [j_pc EXCEPT ![j] = "ended"]
                 /\ running' = NoTask
                 /\ TaskEnds(j)
            ELSE UNCHANGED << jobs_store, j_pc, running, j_req, j_i,
                              j_processed >>
    /\ UNCHANGED << j_file, j_lipsyncFailed, j_composerError, reply >>

\* progress 95, copy to output_path, progress 100, completed, url and path
JobComplete(j) ==
    /\ running = j
    /\ j_pc[j] = "final"
    /\ j_file' = [j_file EXCEPT ![j] = TRUE]
    /\ jobs_store' = [jobs_store EXCEPT ![j].progress = 100,
                                        ![j].status = "completed",
                                        ![j].output_url = OutputUrl(j),
                                        ![j].output_path = OutputPath(j)]
    /\ j_pc' = [j_pc EXCEPT ![j] = "ended"]
    /\ running' = NoTask
    /\ TaskEnds(j)
    /\ UNCHANGED << j_toolkit, j_lipsyncFailed, j_composerError, reply >>

\* GET /api/jobs/{job_id}
GetJob(j) ==
    /\ running = NoTask
    /\ jobs_store[j].status # "absent"
    /\ reply' = [op |-> "get_job", job |-> j, code |-> "200",
                 status |-> jobs_store[j].status,
                 error |-> jobs_store[j].error]
    /\ UNCHANGED << j_toolkit, jobs_store, j_pc, j_req, j_i, j_processed, j_file,
                    j_lipsyncFailed, j_composerError, running >>

\* GET /api/jobs/{job_id}/download
DownloadJobOutput(j) ==
    /\ running = NoTask
    /\ reply' = [op |-> "download", job |-> j,
                 code |-> DownloadResponse(jobs_store[j], j_file[j]),
                 status |-> jobs_store[j].status,
                 error |-> NoneS]
    /\ UNCHANGED << j_toolkit, jobs_store, j_pc, j_req, j_i, j_processed, j_file,
                    j_lipsyncFailed, j_composerError, running >>

\* ------------------------------------- PersonalizationEngine.process: steps
EngineInit ==
    /\ e_pc = "idle"
    /\ e_n = 0
    /\ e_i = 1
    /\ e_lipsynced = << >>
    /\ e_output = NoneS

\* process(job) with transcript edits and a voice id
EngineProcess ==
    /\ e_pc = "idle"
    /\ \E n \in 1..MaxEngineEdits : e_n' = n
    /\ e_i' = 1
    /\ e_lipsynced' = << >>
    /\ e_output' = NoneS
    /\ e_pc' = "edits"

\* one edit: the lip-sync succeeds, the video segment is replaced
EngineEditLipsynced ==
    /\ e_pc = "edits"
    /\ e_i <= e_n
    /\ e_lipsynced' = Append(e_lipsynced, TRUE)
    /\ e_i' = e_i + 1
    /\ UNCHANGED << e_pc, e_n, e_output >>

\* one edit: lipsync raises, "except Exception" logs a warning, the audio
\* of the segment alone is replaced
EngineEditAudioOnly ==
    /\ e_pc = "edits"
    /\ e_i <= e_n
    /\ e_lipsynced' = Append(e_lipsynced, FALSE)
    /\ e_i' = e_i + 1
    /\ UNCHANGED << e_pc, e_n, e_output >>

\* speech generation, extraction or replacement raises: process raises
EngineRaises ==
    /\ e_pc = "edits"
    /\ e_i <= e_n
    /\ e_pc' = "raised"
    /\ UNCHANGED << e_n, e_i, e_lipsynced, e_output >>

\* the edits are done: copy to output_path and return it
EngineReturn ==
    /\ e_pc = "edits"
    /\ e_i > e_n
    /\ e_output' = "output.mp4"
    /\ e_pc' = "returned"
    /\ UNCHANGED << e_n, e_i, e_lipsynced >>

\* the caller builds the next job
EngineNextJob ==
    /\ e_pc \in {"returned", "raised"}
    /\ e_pc' = "idle"
    /\ e_n' = 0
    /\ e_i' = 1
    /\ e_lipsynced' = << >>
    /\ e_output' = NoneS

\* ------------------------------------ SyncLabsClient: polling a lip-sync job
\* current_interval = 2.0, in eighths of a second
InitialInterval == 16

\* max_interval = 15.0, in eighths of a second
MaxInterval == 120

\* max_wait_seconds, in eighths of a second
MaxWait == 8 * MaxWaitSeconds

\* how long one status request may take, in eighths of a second
PollLatencies == {0, 8}

\* the clock of the model stops where no run of the loop can take it
ElapsedCap == MaxWait + MaxInterval + 8

Min(a, b) == IF a < b THEN a ELSE b

NextInterval_Fixed(interval) == interval

\* min(current_interval * backoff_multiplier, max_interval) with multiplier
\* 1.5; every product below the cap is a whole number of eighths
NextInterval(interval) == Min((interval * 3) \div 2, MaxInterval)

LoopCondition_Unbounded(t) == TRUE

\* while time.time() - start_time < max_wait_seconds
LoopCondition(t) == t < MaxWait

\* the status strings the service may answer with
StatusStrings == {"PENDING", "PROCESSING", "COMPLETED", "FAILED", "REJECTED"}

\* JobStatus(status_str), and PENDING for a string the enum does not know
ParseStatus(status_str) ==
    IF status_str \in {"PENDING", "PROCESSING", "COMPLETED", "FAILED"}
    THEN status_str
    ELSE "PENDING"

TimeoutMessage == "Job timed out"

JobFailedMessage == "Job failed"

StatusErrorMessage == "Failed to get job status"

NoOutcome == [cause |-> "none", job |-> "none", error |-> NoneS,
              lipsynced |-> FALSE]

\* the message tells the timeout from the other SyncLabsErrors
CauseOf(message) ==
    CASE message = TimeoutMessage -> "timeout"
      [] message = JobFailedMessage -> "job_failed"
      [] message = StatusErrorMessage -> "status_error"
      [] OTHER -> "none"

PollInit ==
    /\ p_pc = "idle"
    /\ p_caller = "none"
    /\ elapsed = 0
    /\ current_interval = InitialInterval
    /\ p_slept = NoneT
    /\ p_polled_at = NoneT
    /\ p_status = "none"
    /\ p_error = NoneS
    /\ p_outcome = NoOutcome

\* _wait_for_completion is entered: start_time, current_interval = 2.0
PollStart(caller) ==
    /\ p_pc = "idle"
    /\ p_pc' = "loop"
    /\ p_caller' = caller
    /\ elapsed' = 0
    /\ current_interval' = InitialInterval
    /\ p_slept' = NoneT
    /\ p_polled_at' = NoneT
    /\ p_status' = "none"
    /\ p_error' = NoneS
    /\ p_outcome' = NoOutcome

\* the call is over: its locals are gone
PollEnd ==
    /\ p_pc' = "idle"
    /\ p_caller' = "none"
    /\ elapsed' = 0
    /\ current_interval' = InitialInterval
    /\ p_slept' = NoneT
    /\ p_polled_at' = NoneT
    /\ p_status' = "none"
    /\ p_error' = NoneS
    /\ p_outcome' = NoOutcome

\* a caller calls lipsync: upload, submit, wait
LipsyncCall ==
    \E caller \in {"server", "engine"} : PollStart(caller)

\* the loop condition holds: one status request, answered after latency
PollRequest(latency) ==
    /\ p_pc = "loop"
    /\ LoopCondition(elapsed)
    /\ \E status_str \in StatusStrings :
         /\ p_status' = ParseStatus(status_str)
         /\ elapsed' = Min(elapsed + latency, ElapsedCap)
         /\ p_pc' = IF ParseStatus(status_str) \in {"COMPLETED", "FAILED"}
                    THEN "waited" ELSE "sleep"
    /\ p_polled_at' = elapsed
    /\ UNCHANGED << p_caller, current_interval, p_slept, p_error, p_outcome >>

\* the loop condition holds: the status request is answered with an error
PollRequestFails ==
    /\ p_pc = "loop"
    /\ LoopCondition(elapsed)
    /\ p_polled_at' = elapsed
    /\ p_error' = StatusErrorMessage
    /\ p_pc' = "raised"
    /\ UNCHANGED << p_caller, elapsed, current_interval, p_slept, p_status,
                    p_outcome >>

\* time.sleep(current_interval), then the interval grows up to the cap
PollSleep ==
    /\ p_pc = "sleep"
    /\ elapsed' = Min(elapsed + current_interval, ElapsedCap)
    /\ p_slept' = current_interval
    /\ current_interval' = NextInterval(current_interval)
    /\ p_pc' = "loop"
    /\ UNCHANGED << p_caller, p_polled_at, p_status, p_error, p_outcome >>

\* the loop condition fails: raise SyncLabsError("... timed out ...")
PollTimeout ==
    /\ p_pc = "loop"
    /\ ~LoopCondition(elapsed)
    /\ p_error' = TimeoutMessage
    /\ p_pc' = "raised"
    /\ UNCHANGED << p_caller, elapsed, current_interval, p_slept,
                    p_polled_at, p_status, p_outcome >>

\* a client that hands every result of the wait to its caller
ResultAccepted_Any(status) == TRUE

\* lipsync_urls: "if result.status != JobStatus.COMPLETED: raise"
ResultAccepted(status) == status = "COMPLETED"

\* lipsync_urls: a result that is not COMPLETED raises "Job failed"
LipsyncUrlsReturn ==
    /\ p_pc = "waited"
    /\ IF ResultAccepted(p_status)
       THEN /\ p_pc' = "returned"
            /\ UNCHANGED p_error
       ELSE /\ p_pc' = "raised"
            /\ p_error' = JobFailedMessage
    /\ UNCHANGED << p_caller, elapsed, current_interval, p_slept,
                    p_polled_at, p_status, p_outcome >>

\* process_full_personalization: nothing catches the error before the
\* handler of the job, which stores status failed and error = str(e)
ServerHandles ==
    /\ p_caller = "server"
    /\ p_pc \in {"returned", "raised"}
    /\ p_outcome' =
         IF p_pc = "raised"
         THEN [cause |-> CauseOf(p_error), job |-> "failed",
               error |-> p_error, lipsynced |-> FALSE]
         ELSE [cause |-> "none", job |-> "continues", error |-> NoneS,
               lipsynced |-> TRUE]
    /\ p_pc' = "idle"
    /\ UNCHANGED << p_caller, elapsed, current_interval, p_slept,
                    p_polled_at, p_status, p_error >>

\* _process_transcript_edits: except Exception logs a warning, sets
\* lipsynced_video_path = None and replaces the audio of the segment only
EngineHandles ==
    /\ p_caller = "engine"
    /\ p_pc \in {"returned", "raised"}
    /\ p_outcome' =
         IF p_pc = "raised"
         THEN [cause |-> CauseOf(p_error), job |-> "continues",
               error |-> NoneS, lipsynced |-> FALSE]
         ELSE [cause |-> "none", job |-> "continues", error |-> NoneS,
               lipsynced |-> TRUE]
    /\ p_pc' = "idle"
    /\ UNCHANGED << p_caller, elapsed, current_interval, p_slept,
                    p_polled_at, p_status, p_error >>

JobSkipsEdit(j) ==
    /\ ~j_req[j].has_voice
    /\ JobVoiceEdit(j)

\* a voice edit with a voice id reaches sync_client.lipsync
JobLipsyncCall(j) ==
    /\ running = j
    /\ j_pc[j] = "voice"
    /\ j_i[j] < j_req[j].edits
    /\ j_req[j].has_voice
    /\ PollStart("server")
    /\ j_pc' = [j_pc EXCEPT ![j] = "lipsync"]
    /\ UNCHANGED << jobs_store, j_req, j_i, j_processed, j_file,
                    j_lipsyncFailed, j_composerError, j_toolkit, reply,
                    running >>

\* lipsync returned: the segment entry is appended, the next edit follows
JobLipsyncReturns(j) ==
    /\ running = j
    /\ j_pc[j] = "lipsync"
    /\ p_pc = "returned"
    /\ PollEnd
    /\ j_pc' = [j_pc EXCEPT ![j] = "voice"]
    /\ j_i' = [j_i EXCEPT ![j] = @ + 1]
    /\ jobs_store' = [jobs_store EXCEPT ![j].progress =
                         EditProgress(j_i[j], j_req[j].edits)]
    /\ j_processed' = [j_processed EXCEPT ![j] = @ + 1]
    /\ \E rc \in ReturnCodes :
         j_toolkit' = [j_toolkit EXCEPT ![j] =
             ToolkitAfter(@, GetAudioLoudness(rc) = "default", "loudness")]
    /\ UNCHANGED << j_req, j_file, j_lipsyncFailed, j_composerError, reply,
                    running >>

\* lipsync raised: the handler of the job stores failed and str(e)
JobLipsyncRaises(j) ==
    /\ running = j
    /\ j_pc[j] = "lipsync"
    /\ p_pc = "raised"
    /\ PollEnd
    /\ j_lipsyncFailed' = [j_lipsyncFailed EXCEPT ![j] = TRUE]
    /\ jobs_store' = [jobs_store EXCEPT ![j] =
                        [HandleException(
                           [@ EXCEPT !.progress =
                               EditProgress(j_i[j], j_req[j].edits)],
                           "SyncLabsError") EXCEPT !.error = p_error]]
    /\ j_pc' = [j_pc EXCEPT ![j] = "ended"]
    /\ running' = NoTask
    /\ TaskEnds(j)
    /\ UNCHANGED << j_file, j_composerError, j_toolkit, reply >>

\* ----------------------------------------------- PersistentStore("jobs")
\* the methods of the store that take self._lock
Locked_All(op) == TRUE

Locked(op) == op \in {"__setitem__", "__delitem__", "update"}

StoreStatuses == {"absent", "pending", "processing", "completed", "failed"}

NoAccess == [op |-> "none", key |-> "none", by |-> "none",
             locked |-> FALSE, alias |-> FALSE]

\* the statuses a background task writes into its record, in order
NextStatuses(status) ==
    CASE status = "pending" -> {"processing"}
      [] status = "processing" -> {"completed", "failed"}
      [] OTHER -> {}

StoreInit ==
    /\ s_data = [j \in Jobs |-> "absent"]
    /\ s_file = [j \in Jobs |-> "absent"]
    /\ s_access = NoAccess

\* jobs_store[job_id] = {...}: under the lock, then _save() dumps all of _data
StoreSetItem(j) ==
    /\ s_data[j] = "absent"
    /\ s_data' = [s_data EXCEPT ![j] = "pending"]
    /\ s_file' = s_data'
    /\ s_access' = [op |-> "__setitem__", key |-> j, by |-> "handler",
                    locked |-> Locked("__setitem__"), alias |-> FALSE]

\* job = jobs_store[job_id] in a request handler: the stored dict itself
StoreGetItem(j) ==
    /\ s_data[j] # "absent"
    /\ s_access' = [op |-> "__getitem__", key |-> j, by |-> "handler",
                    locked |-> Locked("__getitem__"), alias |-> TRUE]
    /\ UNCHANGED << s_data, s_file >>

\* jobs_store[job_id]["status"] = ... in the task of the job: __getitem__,
\* then an item assignment on the stored dict; nothing is saved
StoreMutateInPlace(j) ==
    /\ \E status \in NextStatuses(s_data[j]) :
         s_data' = [s_data EXCEPT ![j] = status]
    /\ s_access' = [op |-> "in_place", key |-> j, by |-> j,
                    locked |-> Locked("__getitem__"), alias |-> TRUE]
    /\ UNCHANGED s_file

\* list(jobs_store.values()) in list_jobs: the stored dicts themselves
StoreValues ==
    /\ s_access' = [op |-> "values", key |-> "all", by |-> "handler",
                    locked |-> Locked("values"), alias |-> TRUE]
    /\ UNCHANGED << s_data, s_file >>

\* C13 as stated: every access to the job-status map holds the lock, no
\* reader is handed the stored record itself, and a record is mutated in
\* place by no task but one.
C13_StoreAccessUnderLock ==
    s_access.op # "none" =>
        /\ s_access.locked
        /\ s_access.op \in {"__getitem__", "values"} => ~s_access.alias
        /\ s_access.op = "in_place" => s_access.by = s_access.key

\* C13 amended: storing a whole record holds the lock and saves the map;
\* reading takes no lock and hands out the stored record itself; an in-place
\* write takes no lock, is made only by the task of that job and is not
\* saved.
C13_StoreAccessAsCoded ==
    /\ s_access.op = "__setitem__" =>
         /\ s_access.locked
         /\ s_file = s_data
    /\ s_access.op \in {"__getitem__", "values", "in_place"} =>
         /\ ~s_access.locked
         /\ s_access.alias
    /\ s_access.op = "in_place" =>
         /\ s_access.by = s_access.key
         /\ s_file[s_access.key] # s_data[s_access.key]

C13_Witness ==
    \E j \in Jobs, k \in Jobs :
        /\ j # k
        /\ s_access.op = "in_place"
        /\ s_access.key = j
        /\ s_data[j] = "completed"
        /\ s_file[j] = "pending"
        /\ s_data[k] = "failed"
        /\ s_file[k] = "processing"

\* ------------------------------------------ overlay_camera_bubble: a call
\* raw_fps < 15 is "too low"
MinFps == 15

\* raw_fps > 60 is "too high"
MaxFps == 60

\* the rate used instead of a missing or implausible one
DefaultFps == 30

ScreenFpsValues == {0, 14, 15, 60, 61}

CameraFpsValues == {30, 1000}

NoFilter == << >>

\* BubbleVisibility: start, end, visible
VisibilityEntries ==
    { e \in [start : 0..MaxWindowTime, end : 0..MaxWindowTime,
             visible : BOOLEAN] : e.start < e.end }

VisibilityLists ==
    UNION { [1..n -> VisibilityEntries] : n \in 0..MaxWindows }

\* the entries of a list that are marked visible, in order
RECURSIVE EnableParts(_)
EnableParts(entries) ==
    IF entries = << >> THEN << >>
    ELSE LET rest == EnableParts(Tail(entries))
         IN  IF Head(entries).visible
             THEN << << Head(entries).start, Head(entries).end >> >> \o rest
             ELSE rest

\* process_bubble_composite: visibility_filter stays None unless the list is
\* non-empty and has a visible entry; else "+".join of between(t,start,end)
BuildVisibilityFilter(entries) ==
    IF entries # << >> /\ EnableParts(entries) # << >>
    THEN EnableParts(entries)
    ELSE NoFilter

\* ffmpeg: between(t, min, max) is 1 when min <= t <= max, else 0
Between(t, min, max) == IF min <= t /\ t <= max THEN 1 ELSE 0

\* the value of the enable expression at time t: the sum of its terms
RECURSIVE EnableValue(_, _)
EnableValue(terms, t) ==
    IF terms = << >> THEN 0
    ELSE Between(t, Head(terms)[1], Head(terms)[2])
           + EnableValue(Tail(terms), t)

\* the overlay is drawn at t when no enable option is given or the
\* expression is not zero
BubbleVisible(filter, t) ==
    filter = NoFilter \/ EnableValue(filter, t) # 0

TargetFps_Raw(fps) == fps

\* raw_fps = screen_info.fps or 30; above 60 or below 15 becomes 30
TargetFps(fps) ==
    LET raw_fps == IF fps = 0 THEN DefaultFps ELSE fps
    IN  IF raw_fps > MaxFps THEN DefaultFps
        ELSE IF raw_fps < MinFps THEN DefaultFps
        ELSE raw_fps

AudioMap_Screen(flag) == "0:a?"

\* audio_map = "1:a?" if use_camera_audio else "0:a?"
AudioMap(flag) == IF flag THEN "1:a?" ELSE "0:a?"

\* the inputs of the command, in order: -i screen_video, -i camera_video
AudioSource(map) == IF map = "1:a?" THEN "camera" ELSE "screen"

NoOutput == [screen_rate |-> 0, camera_rate |-> 0, rate |-> 0,
             audio |-> "none"]

OverlayInit ==
    /\ o_pc = "idle"
    /\ o_caller = "none"
    /\ o_replacements = 0
    /\ use_camera_audio = FALSE
    /\ screen_fps = DefaultFps
    /\ camera_fps = DefaultFps
    /\ visibility = << >>
    /\ visibility_filter = NoFilter
    /\ target_fps = DefaultFps
    /\ audio_map = "0:a?"
    /\ o_out = NoOutput

\* the dual-recording branch of a job with lip-synced camera segments
\* composites the two spliced tracks with use_camera_audio=True
OverlayFromDualBranch ==
    /\ o_pc = "idle"
    /\ o_caller' = "dual"
    /\ \E n \in 1..MaxUnits : o_replacements' = n
    /\ use_camera_audio' = TRUE
    /\ visibility' = << >>
    /\ visibility_filter' = NoFilter
    /\ \E s \in ScreenFpsValues, c \in CameraFpsValues :
         /\ screen_fps' = s
         /\ camera_fps' = c
    /\ o_pc' = "called"
    /\ UNCHANGED << target_fps, audio_map, o_out >>

\* a job without voice edits overlays the original camera, default audio
OverlayWithoutEdits ==
    /\ o_pc = "idle"
    /\ o_caller' = "no_edits"
    /\ o_replacements' = 0
    /\ use_camera_audio' = FALSE
    /\ visibility' = << >>
    /\ visibility_filter' = NoFilter
    /\ \E s \in ScreenFpsValues, c \in CameraFpsValues :
         /\ screen_fps' = s
         /\ camera_fps' = c
    /\ o_pc' = "called"
    /\ UNCHANGED << target_fps, audio_map, o_out >>

\* process_bubble_composite: builds the visibility filter from the settings
\* and composites the two originals, default audio
OverlayFromBubbleComposite ==
    /\ o_pc = "idle"
    /\ o_caller' = "bubble"
    /\ o_replacements' = 0
    /\ use_camera_audio' = FALSE
    /\ \E entries \in VisibilityLists :
         /\ visibility' = entries
         /\ visibility_filter' = BuildVisibilityFilter(entries)
    /\ \E s \in ScreenFpsValues, c \in CameraFpsValues :
         /\ screen_fps' = s
         /\ camera_fps' = c
    /\ o_pc' = "called"
    /\ UNCHANGED << target_fps, audio_map, o_out >>

\* overlay_camera_bubble up to the command line: target_fps, audio_map
OverlayBuildArgs ==
    /\ o_pc = "called"
    /\ target_fps' = TargetFps(screen_fps)
    /\ audio_map' = AudioMap(use_camera_audio)
    /\ o_pc' = "built"
    /\ UNCHANGED << o_caller, o_replacements, use_camera_audio, screen_fps,
                    camera_fps, visibility, visibility_filter, o_out >>

\* ffmpeg runs: fps=target_fps on both inputs, -r target_fps, one -map for
\* the audio
OverlayRun ==
    /\ o_pc = "built"
    /\ o_out' = [screen_rate |-> target_fps, camera_rate |-> target_fps,
                 rate |-> target_fps, audio |-> AudioSource(audio_map)]
    /\ o_pc' = "done"
    /\ UNCHANGED << o_caller, o_replacements, use_camera_audio, screen_fps,
                    camera_fps, visibility, visibility_filter, target_fps,
                    audio_map >>

\* ffmpeg exits non-zero: FFmpegError, no output
OverlayFails ==
    /\ o_pc = "built"
    /\ RunFFmpeg(1) = "raise"
    /\ o_pc' = "raised"
    /\ UNCHANGED << o_caller, o_replacements, use_camera_audio, screen_fps,
                    camera_fps, visibility, visibility_filter, target_fps,
                    audio_map, o_out >>

\* the caller goes on: the arguments and locals of the call are gone
OverlayReturn ==
    /\ o_pc \in {"done", "raised"}
    /\ o_pc' = "idle"
    /\ o_caller' = "none"
    /\ o_replacements' = 0
    /\ use_camera_audio' = FALSE
    /\ screen_fps' = DefaultFps
    /\ camera_fps' = DefaultFps
    /\ visibility' = << >>
    /\ visibility_filter' = NoFilter
    /\ target_fps' = DefaultFps
    /\ audio_map' = "0:a?"
    /\ o_out' = NoOutput

\* ---------------------------------------------------- overlay properties
\* C16: the audio of the composited output is the audio of one track, the
\* one use_camera_audio selects, and when the camera track carries at least
\* one lip-synced clip it is the camera's.
C16_AudioFromSelectedTrack ==
    o_pc = "done" =>
        /\ o_out.audio \in {"screen", "camera"}
        /\ o_out.audio = (IF use_camera_audio THEN "camera" ELSE "screen")
        /\ o_replacements > 0 => o_out.audio = "camera"

C16_Witness ==
    /\ o_pc = "done"
    /\ o_caller = "dual"
    /\ o_replacements = MaxUnits
    /\ audio_map = "1:a?"
    /\ o_out.audio = "camera"

\* the instants a visible entry of the list covers
InVisibleWindow(t) ==
    \E k \in 1..Len(visibility) :
        /\ visibility[k].visible
        /\ visibility[k].start <= t
        /\ t <= visibility[k].end

\* C17: with an empty list the bubble is drawn at every instant; with any
\* other list it is drawn at t exactly when t lies in a visible window.
C17_VisibleIffInWindows ==
    (o_pc = "done" /\ o_caller = "bubble") =>
        \A t \in 0..MaxWindowTime :
            BubbleVisible(visibility_filter, t)
                <=> (visibility = << >> \/ InVisibleWindow(t))

InRange(fps) == MinFps <= fps /\ fps <= MaxFps

\* C18 as stated: when the screen or the camera reports a frame rate outside
\* [15, 60], both tracks are set to 30 fps.
C18_EitherTrackOutOfRangeClamps ==
    (o_pc = "done" /\ (~InRange(screen_fps) \/ ~InRange(camera_fps))) =>
        /\ o_out.screen_rate = DefaultFps
        /\ o_out.camera_rate = DefaultFps

\* C18 amended: both tracks and the output get one rate, 30 fps when the
\* screen reports none or one outside [15, 60], else the rate the screen
\* reports; the rate the camera reports plays no part.
C18_ScreenOutOfRangeClamps ==
    o_pc = "done" =>
        /\ o_out.screen_rate = o_out.camera_rate
        /\ o_out.rate = o_out.screen_rate
        /\ ~InRange(screen_fps) => o_out.rate = DefaultFps
        /\ InRange(screen_fps) => o_out.rate = screen_fps

C18_Witness ==
    /\ o_pc = "done"
    /\ screen_fps = MaxFps + 1
    /\ camera_fps = DefaultFps
    /\ o_out.screen_rate = DefaultFps
    /\ o_out.camera_rate = DefaultFps

C9_ComposerErrorAbortsJob ==
    /\ \A j \in Jobs :
         j_composerError[j] =>
            /\ jobs_store[j].status # "completed"
            /\ ~(reply.job = j /\ reply.code = "file")
            /\ (j_pc[j] = "ended" => jobs_store[j].status = "failed")
    /\ (reply.op = "download" /\ reply.code = "file") =>
         /\ reply.status = "completed"
         /\ jobs_store[reply.job].status = "completed"

C9_Witness ==
    \E j \in Jobs, k \in Jobs :
        /\ j # k
        /\ j_composerError[j]
        /\ jobs_store[j].status = "failed"
        /\ jobs_store[k].status = "completed"
        /\ reply.op = "download"
        /\ reply.job = k
        /\ reply.code = "file"

\* C10: a job record whose status is failed carries an error message.
C10_FailedCarriesError ==
    \A j \in Jobs :
        jobs_store[j].status = "failed" =>
            /\ jobs_store[j].error # NoneS
            /\ jobs_store[j].error \in { StrOf(e) : e \in Exceptions }
            /\ (reply.op = "get_job" /\ reply.job = j
                   /\ reply.status = "failed") => reply.error # NoneS

C10_Witness ==
    \E j \in Jobs :
        /\ jobs_store[j].status = "failed"
        /\ jobs_store[j].error = StrOf("SyncLabsError")
        /\ reply.op = "get_job"
        /\ reply.job = j
        /\ reply.status = "failed"
        /\ reply.error = StrOf("SyncLabsError")

\* C11: every job whose record is pending or processing eventually has
\* status completed or failed; the timeout of the lip-sync wait is one of
\* the ways to failed.
C11_StartedJobsTerminate ==
    \A j \in Jobs :
        (jobs_store[j].status \in {"pending", "processing"})
            ~> (jobs_store[j].status \in {"completed", "failed"})

C11_Witness ==
    \E j \in Jobs, k \in Jobs :
        /\ jobs_store[j].status = "failed"
        /\ jobs_store[j].error = TimeoutMessage
        /\ jobs_store[k].status = "completed"
        /\ jobs_store[k].progress = 100
        /\ j_file[k]

\* C14 as stated: a job that met any failure of a toolkit operation runs no
\* later step and ends failed.
C14_ToolkitFailureAbortsJob ==
    \A j \in Jobs :
        j_toolkit[j] # {} =>
            /\ j_pc[j] = "ended"
            /\ jobs_store[j].status = "failed"

\* C14 amended: a job that met a failure of an operation run through
\* run_ffmpeg runs no later step, ends failed and writes no output; a
\* failed loudness measurement alone leaves the job running.
C14_RunFFmpegFailureAbortsJob ==
    \A j \in Jobs :
        /\ "run_ffmpeg" \in j_toolkit[j] =>
              /\ j_pc[j] = "ended"
              /\ jobs_store[j].status = "failed"
              /\ jobs_store[j].error = StrOf("FFmpegError")
              /\ ~j_file[j]
        /\ (j_toolkit[j] = {"loudness"} /\ j_pc[j] = "ended") =>
              jobs_store[j].status \in {"completed", "failed"}

C14_Witness ==
    \E j \in Jobs, k \in Jobs :
        /\ j_toolkit[j] = {"loudness", "run_ffmpeg"}
        /\ jobs_store[j].status = "failed"
        /\ j_toolkit[k] = {"loudness"}
        /\ jobs_store[k].status = "completed"
        /\ j_file[k]

\* ------------------------------------ compose(): ends of the timeline
LastUnit(us) == us[Len(us)]

\* C21: a unit whose window ends where the original ends is followed by no
\* pass-through clip: its replacement is the last entry of the plan.
C21_UnitAtEndLeavesNoTail ==
    (ComposeFinished /\ ValidTimeline(c_units)
        /\ LastUnit(c_units).end = total_duration) =>
        /\ segments_to_concat[Len(segments_to_concat)].kind = "proc"
        /\ segments_to_concat[Len(segments_to_concat)].end = total_duration
        /\ \A k \in 1..Len(segments_to_concat) :
              segments_to_concat[k].kind = "orig" =>
                 segments_to_concat[k].end <= LastUnit(c_units).start

C21_Witness ==
    /\ c_pc = "done"
    /\ Len(c_units) = 2
    /\ ValidTimeline(c_units)
    /\ LastUnit(c_units).end = total_duration
    /\ c_units[1].start > 0
    /\ segments_to_concat[Len(segments_to_concat)].kind = "proc"

\* C22: for an empty list of units the composer's output is the original
\* from 0 to its end, once, and nothing else.
C22_EmptyListIsOnePassThrough ==
    (c_pc = "done" /\ c_units = << >>) =>
        /\ Len(segments_to_concat) = 1
        /\ segments_to_concat[1].kind \in {"copy", "orig"}
        /\ segments_to_concat[1].start = 0
        /\ segments_to_concat[1].end = total_duration
        /\ c_output = total_duration

C22_Witness ==
    /\ c_pc = "done"
    /\ c_units = << >>
    /\ segments_to_concat = CopyOriginal(total_duration)
    /\ c_output = total_duration

RECURSIVE PassThroughClips(_)
PassThroughClips(plan) ==
    IF plan = << >> THEN << >>
    ELSE IF Head(plan).kind = "orig"
         THEN << Head(plan) >> \o PassThroughClips(Tail(plan))
         ELSE PassThroughClips(Tail(plan))

DisjointIncreasing(clips) ==
    \A k \in 1..(Len(clips) - 1) : clips[k].end <= clips[k + 1].start

\* C24: for every list of units the composer processes, the cursor into the
\* original never moves backwards, and the clips taken from the original
\* are pairwise disjoint and in increasing order.
C24_CursorNeverMovesBackwards ==
    /\ \A k \in 1..(Len(c_cursors) - 1) : c_cursors[k] <= c_cursors[k + 1]
    /\ DisjointIncreasing(PassThroughClips(segments_to_concat))

\* ------------------------------------------- compose(): adjacent units
\* the loop of compose() and the final segment, as one function of the
\* sorted segments, the cursor and the duration of the original
RECURSIVE ComposeLoop(_, _, _)
ComposeLoop(segs, cur, total) ==
    IF segs = << >>
    THEN FinalSegment(cur, total)
    ELSE GapBefore(cur, Head(segs))
             \o << ProcessedEntry(Head(segs)) >>
             \o ComposeLoop(Tail(segs), ResumeFrom(Head(segs)), total)

ComposePlan(caller, us, total) ==
    ComposeLoop(SortSegments([k \in 1..Len(us) |-> MakeSegment(caller, us[k])]),
                0, total)

\* units {1.0-2.0, newDuration 1.5} and {2.0-3.0, newDuration 0.5} on a
\* timeline of 5.0 s, in ticks of 50 ms
AdjacentScenario ==
    << [start |-> 20, end |-> 40, newDur |-> 30],
       [start |-> 40, end |-> 60, newDur |-> 10] >>

ZeroLengthEntries(plan) ==
    { k \in 1..Len(plan) : plan[k].kind = "orig" /\ plan[k].start >= plan[k].end }

\* C20: two adjacent units (the first ends where the second starts) leave no
\* zero-length original clip in the plan and their replacements follow one
\* another directly; units {20..40, newDuration 30} and {40..60, newDuration
\* 10} on a timeline of 100 ticks give exactly [PassThrough(0,20),
\* Replacement(30), Replacement(10), PassThrough(60,100)], 100 ticks in all.
C20_AdjacentUnitsLeaveNoGap ==
    /\ (ComposeFinished /\ ValidTimeline(c_units)) =>
          /\ segments_to_concat
               = ComposePlan(c_caller, c_units, total_duration)
          /\ ZeroLengthEntries(segments_to_concat) = {}
          /\ \A k \in 1..(Len(c_units) - 1) :
                c_units[k].end = c_units[k + 1].start =>
                   \E p \in 1..(Len(segments_to_concat) - 1) :
                      /\ segments_to_concat[p].kind = "proc"
                      /\ segments_to_concat[p].end = c_units[k].end
                      /\ segments_to_concat[p + 1].kind = "proc"
                      /\ segments_to_concat[p + 1].start = c_units[k + 1].start
    /\ \A caller \in Callers :
          LET plan == ComposePlan(caller, AdjacentScenario, 100) IN
            /\ Len(plan) = 4
            /\ plan[1] = PassThrough(0, 20)
            /\ plan[2].kind = "proc" /\ plan[2].dur = 30
            /\ plan[3].kind = "proc" /\ plan[3].dur = 10
            /\ plan[4] = PassThrough(60, 100)
            /\ PlanDuration(plan) = 100

C20_Witness ==
    /\ c_pc = "done"
    /\ Len(c_units) = 2
    /\ ValidTimeline(c_units)
    /\ c_units[1].end = c_units[2].start
    /\ Len(segments_to_concat) = 4
    /\ segments_to_concat[1].kind = "orig"
    /\ segments_to_concat[2].kind = "proc"
    /\ segments_to_concat[3].kind = "proc"
    /\ segments_to_concat[4].kind = "orig"
    /\ c_output = PlanDuration(segments_to_concat)

\* ------------------------------------ VoiceClient.generate(): _tts_cache
\* edit.voice_id and edit.new_text of the requests
VoiceIds == {"va", "vb"}

Texts == {"hello", "bye"}

\* a cache content built from the text alone
CacheContent_TextOnly(voice_id, text) == << text >>

\* cache_content = f"{voice_id}:{text}" (the server passes no previous_text
\* and no next_text); cache_key is its SHA-256 digest cut to 16 hex digits,
\* which tells two contents apart
CacheContent(voice_id, text) == << voice_id, ":", text >>

CacheKeys == { CacheContent(v, t) : v \in VoiceIds, t \in Texts }

\* OUTPUT_DIR / f"voice_{job_id}_{i}.wav"
AudioPath(j, i) == << j, i >>

AudioPaths == { AudioPath(j, i) : j \in Jobs, i \in 0..(MaxEdits - 1) }

NoPath == << >>

NoAudio == << >>

\* the fields of a video's record that the upload handler writes and the
\* personalization task reads, and those the bubble composite writes
FieldsRead == << "has_camera", "camera_path" >>

FieldsOfComposite == {"latest_composite", "bubble_settings"}

VideoFields == {"has_camera", "camera_path"} \cup FieldsOfComposite

NoRead == [reader |-> NoTask, writer |-> NoTask, via |-> "none",
           wanted |-> << >>, got |-> << >>]

VoiceInit ==
    /\ tts_cache = [k \in CacheKeys |-> NoPath]
    /\ voice_files = [p \in AudioPaths |-> NoAudio]
    /\ videos_store = [f \in VideoFields |->
                          IF f \in FieldsOfComposite THEN "absent"
                                                     ELSE "upload"]
    /\ g_pc = [j \in Jobs |-> "pending"]
    /\ g_n = [j \in Jobs |-> 0]
    /\ g_i = [j \in Jobs |-> 0]
    /\ x_read = NoRead

\* the task that last wrote a field of the record in place
RecordWriter ==
    IF videos_store["latest_composite"] \in Jobs
    THEN videos_store["latest_composite"] ELSE NoTask

\* process_full_personalization up to the loop over the voice edits: it reads
\* has_camera and camera_path from the video's record
PersonalizationStarts(j) ==
    /\ g_pc[j] = "pending"
    /\ \E n \in 1..MaxEdits : g_n' = [g_n EXCEPT ![j] = n]
    /\ g_pc' = [g_pc EXCEPT ![j] = "voice"]
    /\ x_read' = [reader |-> j, writer |-> RecordWriter,
                  via |-> "videos_store", wanted |-> FieldsRead,
                  got |-> [k \in 1..Len(FieldsRead) |->
                              videos_store[FieldsRead[k]]]]
    /\ UNCHANGED << tts_cache, voice_files, videos_store, g_i >>

\* voice_client.generate(text, voice_id, output_path) with use_cache=True: on
\* a hit whose file exists the cached file is copied to output_path; on a
\* miss the audio is generated into output_path and the cache points at it
VoiceGenerate(j, voice_id, text) ==
    /\ g_pc[j] = "voice"
    /\ g_i[j] < g_n[j]
    /\ LET cache_key == CacheContent(voice_id, text)
           output_path == AudioPath(j, g_i[j])
           cached_path == tts_cache[cache_key]
       IN  IF cached_path # NoPath /\ voice_files[cached_path] # NoAudio
           THEN /\ voice_files' = [voice_files EXCEPT
                                      ![output_path] = voice_files[cached_path]]
                /\ x_read' = [reader |-> j, writer |-> cached_path[1],
                              via |-> "tts_cache",
                              wanted |-> << voice_id, text >>,
                              got |-> voice_files[cached_path]]
                /\ UNCHANGED tts_cache
           ELSE /\ voice_files' = [voice_files EXCEPT
                                      ![output_path] = << voice_id, text >>]
                /\ tts_cache' = [tts_cache EXCEPT ![cache_key] = output_path]
                /\ x_read' = NoRead
    /\ g_i' = [g_i EXCEPT ![j] = g_i[j] + 1]
    /\ UNCHANGED << videos_store, g_pc, g_n >>

\* text_to_speech.convert or run_ffmpeg raises on a miss: nothing is cached
VoiceGenerateFails(j) ==
    /\ g_pc[j] = "voice"
    /\ g_i[j] < g_n[j]
    /\ g_pc' = [g_pc EXCEPT ![j] = "ended"]
    /\ x_read' = NoRead
    /\ UNCHANGED << tts_cache, voice_files, videos_store, g_n, g_i >>

PersonalizationEnds(j) ==
    /\ g_pc[j] = "voice"
    /\ g_i[j] = g_n[j]
    /\ g_pc' = [g_pc EXCEPT ![j] = "ended"]
    /\ x_read' = NoRead
    /\ UNCHANGED << tts_cache, voice_files, videos_store, g_n, g_i >>

\* process_bubble_composite: after the overlay it writes latest_composite and
\* bubble_settings into the video's record in place
BubbleCompositeEnds(j) ==
    /\ g_pc[j] = "pending"
    /\ videos_store' = [f \in VideoFields |->
                           IF f \in FieldsOfComposite THEN j
                                                      ELSE videos_store[f]]
    /\ g_pc' = [g_pc EXCEPT ![j] = "ended"]
    /\ x_read' = NoRead
    /\ UNCHANGED << tts_cache, voice_files, g_n, g_i >>

JobKinds == {"bubble", "visual", "full"}

NoKind == "none"

NoUrl == [route |-> "none", job |-> "none"]

NoFile == [prefix |-> "none", job |-> "none"]

\* the file a task writes into OUTPUT_DIR: composite_{job_id}_{quality}.mp4,
\* render_{job_id}.mp4, personalized_{job_id}.mp4
OutputFile(kind, j) ==
    [prefix |-> CASE kind = "bubble" -> "composite"
                  [] kind = "visual" -> "render"
                  [] OTHER -> "personalized",
     job |-> j]

\* the output_url a task stores: /api/output/{name} for the bubble composite,
\* /api/render/{job_id}/download for the other two
StoredUrl(kind, j) ==
    [route |-> IF kind = "bubble" THEN "/api/output" ELSE "/api/render",
     job |-> j]

\* the order in which a task writes the fields of its record once its
\* output file exists
FinalWrites(kind) ==
    CASE kind = "bubble" ->
           << "status", "progress", "output_url", "videos_store" >>
      [] kind = "visual" ->
           << "progress", "status", "output_path", "output_url" >>
      [] OTHER ->
           << "progress", "status", "output_url", "output_path" >>

NewFinishRecord ==
    [status |-> "pending", progress |-> 0, output_url |-> NoUrl,
     output_path |-> NoFile, error |-> NoneS]

AbsentRecord ==
    [status |-> "absent", progress |-> 0, output_url |-> NoUrl,
     output_path |-> NoFile, error |-> NoneS]

\* jobs_store[job_id][field] = value for the final write of that field
WriteField(rec, field, kind, j) ==
    CASE field = "status" -> [rec EXCEPT !.status = "completed"]
      [] field = "progress" -> [rec EXCEPT !.progress = 100]
      [] field = "output_url" -> [rec EXCEPT !.output_url = StoredUrl(kind, j)]
      [] field = "output_path" ->
           [rec EXCEPT !.output_path = OutputFile(kind, j)]
      [] OTHER -> rec

\* a task that gave the event loop a chance to run after every statement
Yields_AfterEveryStatement(pc) == TRUE

\* the tasks are coroutines without a single await: once started they run
\* to their end before the event loop serves anything else
Yields(pc) == FALSE

\* a task in which any statement may raise
Raises_Anywhere(pc) == TRUE

\* the steps of a task that may raise: the processing (get_video_info,
\* FFmpeg, the remote services); the final writes assign into a dict
Raises(pc) == pc = "work"

HandlerMayRun == f_loop = NoTask \/ Yields(f_pc[f_loop])

NoFinishReply ==
    [op |-> "none", job |-> "none", kind |-> NoKind, code |-> "none",
     status |-> "absent", progress |-> 0, output_url |-> NoUrl,
     file |-> NoFile]

FinishInit ==
    /\ f_store = [j \in Jobs |-> AbsentRecord]
    /\ f_kind = [j \in Jobs |-> NoKind]
    /\ f_pc = [j \in Jobs |-> "none"]
    /\ f_k = [j \in Jobs |-> 0]
    /\ f_loop = NoTask
    /\ f_files = {}
    /\ f_reply = NoFinishReply

\* the POST handlers: store the pending record, queue the task
FinishCreate(j, kind) ==
    /\ HandlerMayRun
    /\ f_pc[j] = "none"
    /\ f_store' = [f_store EXCEPT ![j] = NewFinishRecord]
    /\ f_kind' = [f_kind EXCEPT ![j] = kind]
    /\ f_pc' = [f_pc EXCEPT ![j] = "queued"]
    /\ UNCHANGED << f_k, f_loop, f_files, f_reply >>

\* the event loop starts a queued task: status = "processing"
FinishStart(j) ==
    /\ f_loop = NoTask
    /\ f_pc[j] = "queued"
    /\ f_loop' = j
    /\ f_store' = [f_store EXCEPT ![j].status = "processing"]
    /\ f_pc' = [f_pc EXCEPT ![j] = "work"]
    /\ UNCHANGED << f_kind, f_k, f_files, f_reply >>

\* the processing ends and the output file is in OUTPUT_DIR
FinishWork(j) ==
    /\ f_loop = j
    /\ f_pc[j] = "work"
    /\ f_files' = f_files \cup { OutputFile(f_kind[j], j) }
    /\ f_pc' = [f_pc EXCEPT ![j] = "writes"]
    /\ UNCHANGED << f_store, f_kind, f_k, f_loop, f_reply >>

\* the next of the final writes
FinishWrite(j) ==
    /\ f_loop = j
    /\ f_pc[j] = "writes"
    /\ f_k[j] < Len(FinalWrites(f_kind[j]))
    /\ f_store' = [f_store EXCEPT ![j] =
                      WriteField(@, FinalWrites(f_kind[j])[f_k[j] + 1],
                                 f_kind[j], j)]
    /\ f_k' = [f_k EXCEPT ![j] = f_k[j] + 1]
    /\ UNCHANGED << f_kind, f_pc, f_loop, f_files, f_reply >>

\* except Exception: status = "failed", error = str(e); the task is over
FinishRaises(j) ==
    /\ f_loop = j
    /\ f_pc[j] \in {"work", "writes"}
    /\ Raises(f_pc[j])
    /\ f_store' = [f_store EXCEPT ![j].status = "failed",
                                  ![j].error = "error"]
    /\ f_pc' = [f_pc EXCEPT ![j] = "ended"]
    /\ f_loop' = NoTask
    /\ UNCHANGED << f_kind, f_k, f_files, f_reply >>

\* the task returns after its last write
FinishReturn(j) ==
    /\ f_loop = j
    /\ f_pc[j] = "writes"
    /\ f_k[j] = Len(FinalWrites(f_kind[j]))
    /\ f_pc' = [f_pc EXCEPT ![j] = "ended"]
    /\ f_loop' = NoTask
    /\ UNCHANGED << f_store, f_kind, f_k, f_files, f_reply >>

\* GET /api/jobs/{job_id}
FinishGetJob(j) ==
    /\ HandlerMayRun
    /\ f_store[j].status # "absent"
    /\ f_reply' = [op |-> "get_job", job |-> j, kind |-> f_kind[j],
                   code |-> "200", status |-> f_store[j].status,
                   progress |-> f_store[j].progress,
                   output_url |-> f_store[j].output_url, file |-> NoFile]
    /\ UNCHANGED << f_store, f_kind, f_pc, f_k, f_loop, f_files >>

\* download_job_output: 400 unless completed, 404 without a stored
\* output_path whose file exists, else that file
JobsDownload(rec) ==
    IF rec.status # "completed" THEN [code |-> "400", file |-> NoFile]
    ELSE IF rec.output_path = NoFile \/ rec.output_path \notin f_files
         THEN [code |-> "404", file |-> NoFile]
         ELSE [code |-> "200", file |-> rec.output_path]

\* download_render: 400 unless completed, then OUTPUT_DIR/render_{job_id}.mp4
\* if it exists, else 404
RenderDownload(rec, j) ==
    IF rec.status # "completed" THEN [code |-> "400", file |-> NoFile]
    ELSE IF [prefix |-> "render", job |-> j] \notin f_files
         THEN [code |-> "404", file |-> NoFile]
         ELSE [code |-> "200", file |-> [prefix |-> "render", job |-> j]]

\* the routes of the application: none is registered under /api/output
Route(url, rec) ==
    CASE url.route = "/api/render" -> RenderDownload(rec, url.job)
      [] url.route = "/api/jobs" -> JobsDownload(rec)
      [] OTHER -> [code |-> "404", file |-> NoFile]

\* GET /api/jobs/{job_id}/download
FinishDownloadJob(j) ==
    /\ HandlerMayRun
    /\ f_store[j].status # "absent"
    /\ LET r == Route([route |-> "/api/jobs", job |-> j], f_store[j]) IN
         f_reply' = [op |-> "download", job |-> j, kind |-> f_kind[j],
                     code |-> r.code, status |-> f_store[j].status,
                     progress |-> f_store[j].progress,
                     output_url |-> f_store[j].output_url, file |-> r.file]
    /\ UNCHANGED << f_store, f_kind, f_pc, f_k, f_loop, f_files >>

\* the client requests the output_url of the record it was given
FinishFollowOutputUrl(j) ==
    /\ HandlerMayRun
    /\ f_store[j].output_url # NoUrl
    /\ LET r == Route(f_store[j].output_url, f_store[j]) IN
         f_reply' = [op |-> "output_url", job |-> j, kind |-> f_kind[j],
                     code |-> r.code, status |-> f_store[j].status,
                     progress |-> f_store[j].progress,
                     output_url |-> f_store[j].output_url, file |-> r.file]
    /\ UNCHANGED << f_store, f_kind, f_pc, f_k, f_loop, f_files >>

\* C25: no response shows status completed without progress 100 and the
\* stored output_url, and the download of a completed job whose task stores
\* an output_path finds that path stored and serves the file.
C25_CompletedOnlyWithOutput ==
    f_reply.status = "completed" =>
        /\ f_reply.progress = 100
        /\ f_reply.output_url = StoredUrl(f_reply.kind, f_reply.job)
        /\ (f_reply.op = "download" /\ f_reply.kind \in {"visual", "full"}) =>
              /\ f_reply.code = "200"
              /\ f_reply.file = OutputFile(f_reply.kind, f_reply.job)

C25_Witness ==
    /\ f_reply.op = "download"
    /\ f_reply.kind = "full"
    /\ f_reply.status = "completed"
    /\ f_reply.code = "200"
    /\ \E j \in Jobs : /\ f_loop = j
                       /\ f_store[j].status = "completed"
                       /\ f_store[j].output_url = NoUrl

C30_OutputUrlServesOwnOutput ==
    (f_reply.op = "output_url" /\ f_reply.status = "completed") =>
        /\ f_reply.code = "200"
        /\ f_reply.file = OutputFile(f_reply.kind, f_reply.job)

\* ------------------------------------------- remove_segments(): steps
\* a cut {start, end} of the video, which lasts MaxTime
Cuts == { [start |-> a, end |-> b] : a \in 0..MaxTime, b \in 0..MaxTime }

ValidCuts == { c \in Cuts : c.start < c.end }

CutLists == UNION { [1..n -> ValidCuts] : n \in 0..MaxCuts }

\* sorted(cuts, key=lambda x: x['start']): stable
RECURSIVE InsertCut(_, _)
InsertCut(c, s) ==
    IF s = << >> THEN << c >>
    ELSE IF c.start < Head(s).start
         THEN << c >> \o s
         ELSE << Head(s) >> \o InsertCut(c, Tail(s))

RECURSIVE SortCuts(_)
SortCuts(s) ==
    IF s = << >> THEN << >>
    ELSE InsertCut(s[Len(s)], SortCuts(SubSeq(s, 1, Len(s) - 1)))

\* the segment kept before a cut, when the cut starts after the cursor
KeepBefore(cur, cut) ==
    IF cut.start > cur THEN << [start |-> cur, end |-> cut.start] >> ELSE << >>

\* the segment kept after the last cut
KeepAfter(cur, duration) ==
    IF cur < duration THEN << [start |-> cur, end |-> duration] >> ELSE << >>

CutInit ==
    /\ r_pc = "idle"
    /\ r_given = << >>
    /\ cuts = << >>
    /\ r_i = 1
    /\ r_current_time = 0
    /\ keep_segments = << >>

\* remove_segments is entered with cuts: they are sorted, the cursor is at 0
RemoveCall ==
    /\ r_pc = "idle"
    /\ \E cs \in CutLists :
         /\ cs # << >>
         /\ r_given' = cs
         /\ cuts' = SortCuts(cs)
    /\ r_pc' = "loop"
    /\ r_i' = 1
    /\ r_current_time' = 0
    /\ keep_segments' = << >>

\* "if not cuts": the video is copied whole
RemoveCopy ==
    /\ r_pc = "idle"
    /\ r_given' = << >>
    /\ cuts' = << >>
    /\ keep_segments' = << [start |-> 0, end |-> MaxTime] >>
    /\ r_pc' = "done"
    /\ UNCHANGED << r_i, r_current_time >>

\* one iteration of "for cut in cuts"
RemoveIteration ==
    /\ r_pc = "loop"
    /\ r_i <= Len(cuts)
    /\ keep_segments' = keep_segments \o KeepBefore(r_current_time, cuts[r_i])
    /\ r_current_time' = cuts[r_i].end
    /\ r_i' = r_i + 1
    /\ UNCHANGED << r_pc, r_given, cuts >>

\* after the loop: the rest of the video, then the extraction
RemoveFinal ==
    /\ r_pc = "loop"
    /\ r_i > Len(cuts)
    /\ keep_segments' = keep_segments \o KeepAfter(r_current_time, MaxTime)
    /\ r_pc' = IF keep_segments \o KeepAfter(r_current_time, MaxTime) = << >>
               THEN "error" ELSE "extract"
    /\ UNCHANGED << r_given, cuts, r_i, r_current_time >>

\* the kept segments are extracted and concatenated
RemoveConcat ==
    /\ r_pc = "extract"
    /\ r_pc' = "done"
    /\ UNCHANGED << r_given, cuts, r_i, r_current_time, keep_segments >>

\* the call is over (returned, or raised "No segments left after cuts")
RemoveReturn ==
    /\ r_pc \in {"done", "error"}
    /\ r_pc' = "idle"
    /\ r_given' = << >>
    /\ cuts' = << >>
    /\ r_i' = 1
    /\ r_current_time' = 0
    /\ keep_segments' = << >>

Intersect(a, b) == a.start < b.end /\ b.start < a.end

\* C27: for any list of cuts, overlapping and nested ones included, no kept
\* segment intersects a cut, and the kept segments are pairwise disjoint
\* and in increasing order of time.
C27_KeptSegmentsAvoidCuts ==
    (r_pc \in {"extract", "done"} /\ r_given # << >>) =>
        /\ \A k \in 1..Len(keep_segments), c \in 1..Len(r_given) :
              ~Intersect(keep_segments[k], r_given[c])
        /\ \A k \in 1..(Len(keep_segments) - 1) :
              keep_segments[k].end <= keep_segments[k + 1].start

\* ------------------------------- auto_process_video: the two workers
\* _run_transcription_for_cache and _run_analysis_for_cache, each in a
\* thread of the pool, and the field of the video's record each one fills
Workers == {"transcript", "analysis"}

\* the record as upload_video stores it: "transcript": None, "analysis": None
UploadedVideo == [transcript |-> FALSE, analysis |-> FALSE]

\* a __getitem__ that hands out a copy of the stored dict
GetItem_Copy(rec) == [alias |-> FALSE, value |-> rec]

\* PersistentStore.__getitem__: return self._data[key], the stored dict
\* itself and not a copy
GetItem(rec) == [alias |-> TRUE, value |-> rec]

NoVideo == [alias |-> FALSE, value |-> UploadedVideo]

\* what the name "video" of a worker denotes
Deref(ref) == IF ref.alias THEN v_data ELSE ref.value

WorkerInit ==
    /\ v_data = UploadedVideo
    /\ v_file = UploadedVideo
    /\ v_lock = NoTask
    /\ w_pc = [t \in Workers |-> "idle"]
    /\ w_video = [t \in Workers |-> NoVideo]

\* auto_process_video submits both functions to the pool and awaits them
AutoProcessStart ==
    /\ \A t \in Workers : w_pc[t] = "idle"
    /\ w_pc' = [t \in Workers |-> "running"]
    /\ UNCHANGED << v_data, v_file, v_lock, w_video >>

\* the transcription or the analysis raises: logged, nothing is stored
WorkerFails(t) ==
    /\ w_pc[t] = "running"
    /\ w_pc' = [w_pc EXCEPT ![t] = "failed"]
    /\ UNCHANGED << v_data, v_file, v_lock, w_video >>

\* video = videos_store[video_id]
WorkerGetItem(t) ==
    /\ w_pc[t] = "running"
    /\ w_video' = [w_video EXCEPT ![t] = GetItem(v_data)]
    /\ w_pc' = [w_pc EXCEPT ![t] = "got"]
    /\ UNCHANGED << v_data, v_file, v_lock >>

\* video["transcript"] = ... or video["analysis"] = ...
WorkerAssignField(t) ==
    /\ w_pc[t] = "got"
    /\ IF w_video[t].alias
       THEN /\ v_data' = [v_data EXCEPT ![t] = TRUE]
            /\ UNCHANGED w_video
       ELSE /\ w_video' = [w_video EXCEPT ![t].value[t] = TRUE]
            /\ UNCHANGED v_data
    /\ w_pc' = [w_pc EXCEPT ![t] = "assigned"]
    /\ UNCHANGED << v_file, v_lock >>

\* videos_store[video_id] = video: takes the lock, stores the dict
WorkerSetItem(t) ==
    /\ w_pc[t] = "assigned"
    /\ v_lock = NoTask
    /\ v_lock' = t
    /\ v_data' = Deref(w_video[t])
    /\ w_pc' = [w_pc EXCEPT ![t] = "stored"]
    /\ UNCHANGED << v_file, w_video >>

\* _save() under the lock: json.dump of the store as it is then
WorkerSave(t) ==
    /\ w_pc[t] = "stored"
    /\ v_lock = t
    /\ v_file' = v_data
    /\ w_pc' = [w_pc EXCEPT ![t] = "saved"]
    /\ UNCHANGED << v_data, v_lock, w_video >>

\* the lock is released and the worker returns
WorkerReturn(t) ==
    /\ w_pc[t] = "saved"
    /\ v_lock = t
    /\ v_lock' = NoTask
    /\ w_pc' = [w_pc EXCEPT ![t] = "done"]
    /\ w_video' = [w_video EXCEPT ![t] = NoVideo]
    /\ UNCHANGED << v_data, v_file >>

\* a request handler stores another video meanwhile: the whole store is saved
OtherSetItem ==
    /\ v_lock = NoTask
    /\ \E t \in Workers : w_pc[t] \notin {"idle", "done", "failed"}
    /\ v_file # v_data
    /\ v_file' = v_data
    /\ UNCHANGED << v_data, v_lock, w_pc, w_video >>

\* asyncio.gather returns; the next upload starts from a fresh record
AutoProcessEnds ==
    /\ \A t \in Workers : w_pc[t] \in {"done", "failed"}
    /\ w_pc' = [t \in Workers |-> "idle"]
    /\ v_data' = UploadedVideo
    /\ v_file' = UploadedVideo
    /\ UNCHANGED << v_lock, w_video >>

\* C28: when the transcription and the analysis of a video run concurrently
\* and both succeed, the video's record holds the transcript and the
\* analysis afterwards, in memory and in the persisted file.
C28_BothResultsKept ==
    (\A t \in Workers : w_pc[t] = "done") =>
        /\ v_data.transcript /\ v_data.analysis
        /\ v_file.transcript /\ v_file.analysis

C28_Witness ==
    /\ \A t \in Workers : w_pc[t] = "done"
    /\ v_data = [transcript |-> TRUE, analysis |-> TRUE]
    /\ v_file = v_data

\* --------------------------------------------------------- specifications
Init == ComposeInit /\ DualInit /\ JobInit /\ EngineInit /\ PollInit
        /\ StoreInit /\ OverlayInit /\ VoiceInit /\ FinishInit
        /\ CutInit /\ WorkerInit

Next ==
    \/ ComposeCall /\ UNCHANGED otherThanCompose
    \/ ComposeCopy /\ UNCHANGED otherThanCompose
    \/ ComposeIteration /\ UNCHANGED otherThanCompose
    \/ ComposeFinal /\ UNCHANGED otherThanCompose
    \/ ComposeConcat /\ UNCHANGED otherThanCompose
    \/ ComposeConcatFails /\ UNCHANGED otherThanCompose
    \/ ComposeReturn /\ UNCHANGED otherThanCompose

Spec == Init /\ [][Next]_vars

NextDual ==
    \/ DualCall /\ UNCHANGED otherThanDual
    \/ DualIteration /\ UNCHANGED otherThanDual
    \/ DualFinal /\ UNCHANGED otherThanDual
    \/ DualFinalInvalid /\ UNCHANGED otherThanDual
    \/ DualToolkitFailure /\ UNCHANGED otherThanDual
    \/ DualConcat /\ UNCHANGED otherThanDual
    \/ DualReturn /\ UNCHANGED otherThanDual

SpecDual == Init /\ [][NextDual]_vars

NextJob ==
    \/ \E j \in Jobs : CreateJob(j) /\ UNCHANGED otherThanJob
    \/ \E j \in Jobs : JobStart(j) /\ UNCHANGED otherThanJob
    \/ \E j \in Jobs : JobVoiceEdit(j) /\ UNCHANGED otherThanJob
    \/ \E j \in Jobs : JobLipsyncFails(j) /\ UNCHANGED otherThanJob
    \/ \E j \in Jobs : JobVoiceDone(j) /\ UNCHANGED otherThanJob
    \/ \E j \in Jobs : JobCompose(j) /\ UNCHANGED otherThanJob
    \/ \E j \in Jobs : JobComposeFails(j) /\ UNCHANGED otherThanJob
    \/ \E j \in Jobs : JobVisual(j) /\ UNCHANGED otherThanJob
    \/ \E j \in Jobs : JobStepFails(j) /\ UNCHANGED otherThanJob
    \/ \E j \in Jobs : JobComplete(j) /\ UNCHANGED otherThanJob
    \/ \E j \in Jobs : GetJob(j) /\ UNCHANGED otherThanJob
    \/ \E j \in Jobs : DownloadJobOutput(j) /\ UNCHANGED otherThanJob

SpecJob == Init /\ [][NextJob]_vars

NextEngine ==
    \/ EngineProcess /\ UNCHANGED otherThanEngine
    \/ EngineEditLipsynced /\ UNCHANGED otherThanEngine
    \/ EngineEditAudioOnly /\ UNCHANGED otherThanEngine
    \/ EngineRaises /\ UNCHANGED otherThanEngine
    \/ EngineReturn /\ UNCHANGED otherThanEngine
    \/ EngineNextJob /\ UNCHANGED otherThanEngine

SpecEngine == Init /\ [][NextEngine]_vars

NextPoll ==
    \/ LipsyncCall /\ UNCHANGED otherThanPoll
    \/ \E latency \in PollLatencies :
         PollRequest(latency) /\ UNCHANGED otherThanPoll
    \/ PollRequestFails /\ UNCHANGED otherThanPoll
    \/ PollSleep /\ UNCHANGED otherThanPoll
    \/ PollTimeout /\ UNCHANGED otherThanPoll
    \/ LipsyncUrlsReturn /\ UNCHANGED otherThanPoll
    \/ ServerHandles /\ UNCHANGED otherThanPoll
    \/ EngineHandles /\ UNCHANGED otherThanPoll

SpecPoll == Init /\ [][NextPoll]_vars

\* the steps of the background tasks and of the calls they wait for; the
\* time a status request takes only brings the timeout nearer and is left
\* at zero here
TaskStep ==
    \/ \E j \in Jobs : JobStart(j) /\ UNCHANGED otherThanJob
    \/ \E j \in Jobs : JobSkipsEdit(j) /\ UNCHANGED otherThanJob
    \/ \E j \in Jobs : JobLipsyncCall(j) /\ UNCHANGED otherThanJobAndPoll
    \/ PollRequest(0) /\ UNCHANGED otherThanPoll
    \/ PollRequestFails /\ UNCHANGED otherThanPoll
    \/ PollSleep /\ UNCHANGED otherThanPoll
    \/ PollTimeout /\ UNCHANGED otherThanPoll
    \/ LipsyncUrlsReturn /\ UNCHANGED otherThanPoll
    \/ \E j \in Jobs : JobLipsyncReturns(j) /\ UNCHANGED otherThanJobAndPoll
    \/ \E j \in Jobs : JobLipsyncRaises(j) /\ UNCHANGED otherThanJobAndPoll
    \/ \E j \in Jobs : JobVoiceDone(j) /\ UNCHANGED otherThanJob
    \/ \E j \in Jobs : JobCompose(j) /\ UNCHANGED otherThanJob
    \/ \E j \in Jobs : JobComposeFails(j) /\ UNCHANGED otherThanJob
    \/ \E j \in Jobs : JobVisual(j) /\ UNCHANGED otherThanJob
    \/ \E j \in Jobs : JobStepFails(j) /\ UNCHANGED otherThanJob
    \/ \E j \in Jobs : JobComplete(j) /\ UNCHANGED otherThanJob

NextLive ==
    \/ \E j \in Jobs : CreateJob(j) /\ UNCHANGED otherThanJob
    \/ TaskStep

\* the event loop runs a queued task, and every blocking call of a running
\* task returns
SpecLive == Init /\ [][NextLive]_vars /\ WF_vars(TaskStep)

NextStore ==
    \/ \E j \in Jobs : StoreSetItem(j) /\ UNCHANGED otherThanStore
    \/ \E j \in Jobs : StoreGetItem(j) /\ UNCHANGED otherThanStore
    \/ \E j \in Jobs : StoreMutateInPlace(j) /\ UNCHANGED otherThanStore
    \/ StoreValues /\ UNCHANGED otherThanStore

SpecStore == Init /\ [][NextStore]_vars

NextOverlay ==
    \/ OverlayFromDualBranch /\ UNCHANGED otherThanOverlay
    \/ OverlayWithoutEdits /\ UNCHANGED otherThanOverlay
    \/ OverlayFromBubbleComposite /\ UNCHANGED otherThanOverlay
    \/ OverlayBuildArgs /\ UNCHANGED otherThanOverlay
    \/ OverlayRun /\ UNCHANGED otherThanOverlay
    \/ OverlayFails /\ UNCHANGED otherThanOverlay
    \/ OverlayReturn /\ UNCHANGED otherThanOverlay

SpecOverlay == Init /\ [][NextOverlay]_vars

NextVoice ==
    \/ \E j \in Jobs : PersonalizationStarts(j) /\ UNCHANGED otherThanVoice
    \/ \E j \in Jobs, v \in VoiceIds, t \in Texts :
           VoiceGenerate(j, v, t) /\ UNCHANGED otherThanVoice
    \/ \E j \in Jobs : VoiceGenerateFails(j) /\ UNCHANGED otherThanVoice
    \/ \E j \in Jobs : PersonalizationEnds(j) /\ UNCHANGED otherThanVoice
    \/ \E j \in Jobs : BubbleCompositeEnds(j) /\ UNCHANGED otherThanVoice

SpecVoice == Init /\ [][NextVoice]_vars

NextFinish ==
    \/ \E j \in Jobs, kind \in JobKinds :
           FinishCreate(j, kind) /\ UNCHANGED otherThanFinish
    \/ \E j \in Jobs : FinishStart(j) /\ UNCHANGED otherThanFinish
    \/ \E j \in Jobs : FinishWork(j) /\ UNCHANGED otherThanFinish
    \/ \E j \in Jobs : FinishWrite(j) /\ UNCHANGED otherThanFinish
    \/ \E j \in Jobs : FinishRaises(j) /\ UNCHANGED otherThanFinish
    \/ \E j \in Jobs : FinishReturn(j) /\ UNCHANGED otherThanFinish
    \/ \E j \in Jobs : FinishGetJob(j) /\ UNCHANGED otherThanFinish
    \/ \E j \in Jobs : FinishDownloadJob(j) /\ UNCHANGED otherThanFinish
    \/ \E j \in Jobs : FinishFollowOutputUrl(j) /\ UNCHANGED otherThanFinish

SpecFinish == Init /\ [][NextFinish]_vars

NextCuts ==
    \/ RemoveCall /\ UNCHANGED otherThanCuts
    \/ RemoveCopy /\ UNCHANGED otherThanCuts
    \/ RemoveIteration /\ UNCHANGED otherThanCuts
    \/ RemoveFinal /\ UNCHANGED otherThanCuts
    \/ RemoveConcat /\ UNCHANGED otherThanCuts
    \/ RemoveReturn /\ UNCHANGED otherThanCuts

SpecCuts == Init /\ [][NextCuts]_vars

NextWorkers ==
    \/ AutoProcessStart /\ UNCHANGED otherThanWorkers
    \/ \E t \in Workers : WorkerFails(t) /\ UNCHANGED otherThanWorkers
    \/ \E t \in Workers : WorkerGetItem(t) /\ UNCHANGED otherThanWorkers
    \/ \E t \in Workers : WorkerAssignField(t) /\ UNCHANGED otherThanWorkers
    \/ \E t \in Workers : WorkerSetItem(t) /\ UNCHANGED otherThanWorkers
    \/ \E t \in Workers : WorkerSave(t) /\ UNCHANGED otherThanWorkers
    \/ \E t \in Workers : WorkerReturn(t) /\ UNCHANGED otherThanWorkers
    \/ OtherSetItem /\ UNCHANGED otherThanWorkers
    \/ AutoProcessEnds /\ UNCHANGED otherThanWorkers

SpecWorkers == Init /\ [][NextWorkers]_vars

====
